---------------------------- MODULE Spec2Model ----------------------------
(***************************************************************************)
(* Model of the NMEA 2000 alert library: the tN2kAlert state machine       *)
(* (src/src/N2kAlerts.cpp) and the Alert Response codec it decodes its     *)
(* input with (N2kAlertMessages.cpp / N2kAlertMessages.h).                 *)
(*                                                                         *)
(* One tN2kAlert object is modelled.  Its members are the variables that   *)
(* carry the member's name; `now' is the millisecond clock the library     *)
(* timer reads, and `call' records the last public operation, its          *)
(* argument, its return value and the private transition it performed.     *)
(*                                                                         *)
(* The encoders and decoders of the three messages are functions of their  *)
(* arguments.  `codec' holds the arguments an encoder was called with, the *)
(* message it built and what the decoder returned for it; `build' is the   *)
(* data model of the build: the width of int and the size of a pointer.    *)
(***************************************************************************)
EXTENDS Integers, Sequences, FiniteSets, TLC

VARIABLES
  _AlertId, _AlertPriority, _AlertType, _AlertCategory, _TriggerCondition,
  _TemporarySilenceSupport, _AcknowledgeSupport, _EscalationSupport,
  _AlertSystem, _AlertSubSystem, _AlertDescription, _AlertLocation,
  _ThresholdMethod, _ThresholdFormat, _ThresholdLevel,
  _OccurenceThreshold, _TemporarySilenceDelay,
  _AlertState, _ThresholdStatus, _Occurence,
  _TemporarySilenceStatus, _AcknowledgeStatus, _EscalationStatus,
  _TemporarySilenceTimer,
  now, call,
  build, codec

identity == <<_AlertId, _AlertPriority, _AlertType, _AlertCategory, _TriggerCondition,
              _TemporarySilenceSupport, _AcknowledgeSupport, _EscalationSupport>>

system == <<_AlertSystem, _AlertSubSystem, _AlertDescription, _AlertLocation>>

threshold == <<_ThresholdMethod, _ThresholdFormat, _ThresholdLevel>>

status == <<_AlertState, _ThresholdStatus, _Occurence,
            _TemporarySilenceStatus, _AcknowledgeStatus, _EscalationStatus>>

alert == <<identity, system, threshold, _OccurenceThreshold, _TemporarySilenceDelay,
           status, _TemporarySilenceTimer>>

\* what the calls of the encoders and decoders work on
harness == <<build, codec>>

vars == <<alert, now, call, harness>>

----------------------------------------------------------------------------
(* Enumerations of N2kAlertTypes.h, with their numeric values.             *)

N2kts_AlertTypeEmergencyAlarm == 1
N2kts_AlertTypeAlarm == 2
N2kts_AlertTypeWarning == 5
N2kts_AlertTypeCaution == 8

N2kts_AlertCategoryNavigational == 0
N2kts_AlertCategoryTechnical == 1

N2kts_AlertTriggerAuto == 1

N2kts_AlertThresholdStatusNormal == 0
N2kts_AlertThresholdStatusExceeded == 1
N2kts_AlertThresholdStatusAcknowledged == 4

N2kts_AlertStateNormal == 1
N2kts_AlertStateActive == 2
N2kts_AlertStateSilenced == 3
N2kts_AlertStateAcknowledged == 4

N2kts_AlertResponseAcknowledge == 0
N2kts_AlertResponseTemporarySilence == 1
N2kts_AlertResponseTestCommandOff == 2
N2kts_AlertResponseTestCommandOn == 3

N2kts_AlertNo == 0
N2kts_AlertYes == 1

N2kts_AlertThresholdMethodEqual == 0
N2kts_AlertThresholdMethodLower == 1
N2kts_AlertThresholddMethodGreater == 2

\* the enumerations as sets of their values
tN2kAlertType ==
  {N2kts_AlertTypeEmergencyAlarm, N2kts_AlertTypeAlarm, N2kts_AlertTypeWarning, N2kts_AlertTypeCaution}
tN2kAlertCategory == {N2kts_AlertCategoryNavigational, N2kts_AlertCategoryTechnical}
tN2kAlertTriggerCondition == 0..3
tN2kAlertThresholdStatus == 0..5
tN2kAlertState == 0..5
tN2kAlertLanguage == 0..19
tN2kAlertYesNo == {N2kts_AlertNo, N2kts_AlertYes}

tN2kAlertResponseCommand == {N2kts_AlertResponseAcknowledge, N2kts_AlertResponseTemporarySilence,
                             N2kts_AlertResponseTestCommandOff, N2kts_AlertResponseTestCommandOn}

t2kNAlertThresholdMethod == {N2kts_AlertThresholdMethodEqual, N2kts_AlertThresholdMethodLower,
                             N2kts_AlertThresholddMethodGreater}

PGN126983 == 126983
PGN126984 == 126984
PGN126985 == 126985

----------------------------------------------------------------------------
(* Bounds of the model.                                                    *)

\* occurrence thresholds handed to the constructor and the setter are
\* 0..MaxThreshold
MaxThreshold == 2
\* the clock advances in steps of TickMs, at most MaxTicks times
MaxTicks == 2
TickMs == 1000

\* the threshold levels and the samples: below, at and above the level
Levels == {1}
Samples == {0, 1, 2}
ThresholdArgs == 0..MaxThreshold
\* silence times handed to SetTemporarySilenceTime, in seconds
SilenceSeconds == {1}
\* the system and subsystem identifiers messages carry: the alert's own or
\* not, for either
Systems == {0, 1}
Addressees == {<<0, 0>>, <<0, 1>>, <<1, 0>>}
\* the description and location texts the alert is given where the texts
\* do not bear on what is checked, and what the two buffers, which the
\* constructors do not write, hold in an object with static storage
Descriptions == {<<>>}
UnsetTexts == {<<>>}

\* the system and subsystem identifiers the alert is given
AlertSystems == {0, 1}
AlertSubSystems == {0}
\* the support flags the alert is constructed with: temporary silence,
\* acknowledge, escalation
SupportArgs == {<<N2kts_AlertNo, N2kts_AlertNo, N2kts_AlertNo>>}

\* a value of the threshold method that is none of the three enumerators:
\* what an unset _ThresholdMethod may hold
UnsetMethod == 3
\* a response command outside the enumeration: what an unwritten local may hold
UnsetCommand == 4


----------------------------------------------------------------------------
(* Bit arithmetic on unsigned char values.                                 *)

RECURSIVE BitAnd(_, _)
BitAnd(a, b) ==
  IF a = 0 \/ b = 0 THEN 0
  ELSE (a % 2) * (b % 2) + 2 * BitAnd(a \div 2, b \div 2)

RECURSIVE BitOr(_, _)
BitOr(a, b) ==
  IF a = 0 THEN b
  ELSE IF b = 0 THEN a
  ELSE (IF a % 2 = 1 \/ b % 2 = 1 THEN 1 ELSE 0) + 2 * BitOr(a \div 2, b \div 2)

\* the value an unsigned char holds after an int is assigned to it
UChar(x) == x % 256

----------------------------------------------------------------------------
(* The message buffer tN2kMsg of the bus library, as the codec uses it: a  *)
(* PGN, a priority and the data bytes; integers are written low byte first.*)

EmptyMsg == [PGN |-> 0, Priority |-> 6, Data |-> <<>>]

SetPGN(N2kMsg, pgn) == [N2kMsg EXCEPT !.PGN = pgn, !.Data = <<>>]

AddByte(N2kMsg, v) == [N2kMsg EXCEPT !.Data = Append(@, UChar(v))]

Add2ByteUInt(N2kMsg, v) ==
  [N2kMsg EXCEPT !.Data = @ \o <<v % 256, (v \div 256) % 256>>]

RECURSIVE LittleEndian(_, _)
LittleEndian(v, n) ==
  IF n = 0 THEN <<>> ELSE <<v % 256>> \o LittleEndian(v \div 256, n - 1)

AddUInt64(N2kMsg, v) == [N2kMsg EXCEPT !.Data = @ \o LittleEndian(v, 8)]

\* the cursor after a read of n bytes at Index: a read past the end of the
\* data leaves it where it is
Advance(N2kMsg, Index, n) ==
  IF Index + n <= Len(N2kMsg.Data) THEN Index + n ELSE Index

\* GetByte(Index): the byte at the cursor, 0xff past the end of the data
GetByte(N2kMsg, Index) ==
  IF Index < Len(N2kMsg.Data) THEN N2kMsg.Data[Index + 1] ELSE 255

\* Get2ByteInt(Index): a signed 16-bit integer, 0x7fff past the end
Get2ByteInt(N2kMsg, Index) ==
  IF Index + 2 <= Len(N2kMsg.Data)
  THEN LET u == N2kMsg.Data[Index + 1] + 256 * N2kMsg.Data[Index + 2]
       IN  IF u >= 32768 THEN u - 65536 ELSE u
  ELSE 32767

RECURSIVE FromLittleEndian(_, _, _)
FromLittleEndian(Data, Index, n) ==
  IF n = 0 THEN 0
  ELSE Data[Index + 1] + 256 * FromLittleEndian(Data, Index + 1, n - 1)

\* GetUInt64(Index): eight bytes, low byte first
GetUInt64(N2kMsg, Index) ==
  IF Index + 8 <= Len(N2kMsg.Data) THEN FromLittleEndian(N2kMsg.Data, Index, 8) ELSE -1

\* AddVarStr(str): the length of the text plus 2, the type byte 1 (ASCII),
\* then the bytes of the text; a text is the sequence of its bytes before
\* the terminating NUL
AddVarStr(N2kMsg, str) ==
  [AddByte(AddByte(N2kMsg, Len(str) + 2), 1) EXCEPT !.Data = @ \o str]

\* the bytes of a C string: those before the first NUL
RECURSIVE c_str(_)
c_str(buf) ==
  IF buf = <<>> \/ Head(buf) = 0 THEN <<>> ELSE <<Head(buf)>> \o c_str(Tail(buf))

\* GetStr(StrBufSize, StrBuf, Length, 0xff, Index): what is in StrBuf after
\* the call; `was' is what it held before.  At most StrBufSize - 1 bytes are
\* copied, and a byte 0x00 or 0xff ends the text.
GetStr(N2kMsg, StrBufSize, was, Length, Index) ==
  IF StrBufSize = 0 THEN was
  ELSE IF Index + Length <= Len(N2kMsg.Data)
  THEN LET n == IF Length < StrBufSize - 1 THEN Length ELSE StrBufSize - 1
       IN  c_str([k \in 1..n |-> IF N2kMsg.Data[Index + k] = 255 THEN 0
                                 ELSE N2kMsg.Data[Index + k]])
  ELSE <<>>

\* GetVarStr(StrBufSize, StrBuf, Index): the text in StrBuf and the cursor
\* after the call.  The length byte counts itself and the type byte; a type
\* other than 1 ends the call with the two bytes read and StrBuf as it was.
GetVarStr(N2kMsg, StrBufSize, was, Index) ==
  LET i1     == Advance(N2kMsg, Index, 1)
      i2     == Advance(N2kMsg, i1, 1)
      Length == GetByte(N2kMsg, Index) - 2
      inside == Length >= 0 /\ i2 + Length <= Len(N2kMsg.Data)
  IN  IF GetByte(N2kMsg, i1) # 1 THEN [str |-> was, Index |-> i2]
      ELSE [str   |-> IF inside THEN GetStr(N2kMsg, StrBufSize, was, Length, i2)
                      ELSE IF StrBufSize = 0 THEN was ELSE <<>>,
            Index |-> IF inside THEN i2 + Length ELSE i2]

\* String_Len of N2kAlerts.h: the two text buffers hold String_Len + 1 bytes
String_Len == 50

\* strlcpy(dst, src, size): the text in dst after the call; `was' is the
\* text dst held before.  At most size - 1 bytes of src are copied and a NUL
\* is written after them; with size 0 nothing is written.
strlcpy(was, src, size) ==
  IF size = 0 THEN was
  ELSE SubSeq(src, 1, IF Len(src) < size - 1 THEN Len(src) ELSE size - 1)

----------------------------------------------------------------------------
(* The data model of the build.                                            *)

\* the bits of an int and the bytes of a pointer: an 8-bit AVR, a 32-bit
\* controller, a 64-bit host
Builds ==
  { [int |-> 16, pointer |-> 2], [int |-> 32, pointer |-> 4], [int |-> 32, pointer |-> 8] }

\* the build of the alert object's program; ParseAlertResponse reads neither
\* the alert id nor a text it decodes
AlertBuild == [int |-> 32, pointer |-> 4]

\* An int x assigned to an unsigned int.  With 16 bits the value is
\* x mod 2^16.  With 32 bits it is x mod 2^32, and a value above 2^31 - 1 is
\* written here as the value minus 2^32, which is x itself.
unsigned_int(x, model) == IF model.int = 16 THEN x % 65536 ELSE x

\* sizeof(char*)
sizeof_pointer(model) == model.pointer

----------------------------------------------------------------------------
(* PGN 126984, Alert Response.                                             *)

\* the encoder leaving the top six bits of the response byte clear
SetN2kPGN126984_ReservedClear(AlertType, AlertCategory, AlertSystem, AlertSubSystem, AlertID, SourceNetworkID, DataSourceInstance, DataSourceIndex, AlertOccurence, AcknowledgeNetworkID, ResponseCommand) ==
  LET m0  == [SetPGN(EmptyMsg, PGN126984) EXCEPT !.Priority = 2]
      m1  == AddByte(m0, BitOr(AlertCategory * 16, AlertType))
      m2  == AddByte(m1, AlertSystem)
      m3  == AddByte(m2, AlertSubSystem)
      m4  == Add2ByteUInt(m3, AlertID)
      m5  == AddUInt64(m4, SourceNetworkID)
      m6  == AddByte(m5, DataSourceInstance)
      m7  == AddByte(m6, DataSourceIndex)
      m8  == AddByte(m7, AlertOccurence)
      m9  == AddUInt64(m8, AcknowledgeNetworkID)
  IN  AddByte(m9, ResponseCommand)

SetN2kPGN126984(AlertType, AlertCategory, AlertSystem, AlertSubSystem, AlertID, SourceNetworkID, DataSourceInstance, DataSourceIndex, AlertOccurence, AcknowledgeNetworkID, ResponseCommand) ==
  LET m0  == [SetPGN(EmptyMsg, PGN126984) EXCEPT !.Priority = 2]
      m1  == AddByte(m0, BitOr(AlertCategory * 16, AlertType))
      m2  == AddByte(m1, AlertSystem)
      m3  == AddByte(m2, AlertSubSystem)
      m4  == Add2ByteUInt(m3, AlertID)
      m5  == AddUInt64(m4, SourceNetworkID)
      m6  == AddByte(m5, DataSourceInstance)
      m7  == AddByte(m6, DataSourceIndex)
      m8  == AddByte(m7, AlertOccurence)
      m9  == AddUInt64(m8, AcknowledgeNetworkID)
  IN  AddByte(m9, BitOr(252, ResponseCommand))

\* the decoder keeping one bit of the response command
ParseN2kPGN126984_OneBitCommand(N2kMsg, out, model) ==
  IF N2kMsg.PGN # PGN126984 THEN [ret |-> FALSE, out |-> out]
  ELSE LET i1  == Advance(N2kMsg, 0, 1)
           i2  == Advance(N2kMsg, i1, 1)
           i3  == Advance(N2kMsg, i2, 1)
           i4  == Advance(N2kMsg, i3, 2)
           i5  == Advance(N2kMsg, i4, 8)
           i6  == Advance(N2kMsg, i5, 1)
           i7  == Advance(N2kMsg, i6, 1)
           i8  == Advance(N2kMsg, i7, 1)
           i9  == Advance(N2kMsg, i8, 8)
           v0  == GetByte(N2kMsg, 0)
           v1  == GetByte(N2kMsg, i9)
       IN  [ret |-> TRUE,
            out |-> [AlertType            |-> BitAnd(v0, 15),
                     AlertCategory        |-> BitAnd(v0 \div 16, 15),
                     AlertSystem          |-> GetByte(N2kMsg, i1),
                     AlertSubSystem       |-> GetByte(N2kMsg, i2),
                     AlertID              |-> unsigned_int(Get2ByteInt(N2kMsg, i3), model),
                     SourceNetworkID      |-> GetUInt64(N2kMsg, i4),
                     DataSourceInstance   |-> GetByte(N2kMsg, i5),
                     DataSourceIndex      |-> GetByte(N2kMsg, i6),
                     AlertOccurence       |-> GetByte(N2kMsg, i7),
                     AcknowledgeNetworkID |-> GetUInt64(N2kMsg, i8),
                     ResponseCommand      |-> BitAnd(v1, 1)]]

\* `out' holds the caller's output variables as they are before the call;
\* the result is the return value and the output variables after it;
\* `model' is the data model of the build.
\* i1, i2, ... are the values of the cursor Index after each read.
ParseN2kPGN126984(N2kMsg, out, model) ==
  IF N2kMsg.PGN # PGN126984 THEN [ret |-> FALSE, out |-> out]
  ELSE LET i1  == Advance(N2kMsg, 0, 1)
           i2  == Advance(N2kMsg, i1, 1)
           i3  == Advance(N2kMsg, i2, 1)
           i4  == Advance(N2kMsg, i3, 2)
           i5  == Advance(N2kMsg, i4, 8)
           i6  == Advance(N2kMsg, i5, 1)
           i7  == Advance(N2kMsg, i6, 1)
           i8  == Advance(N2kMsg, i7, 1)
           i9  == Advance(N2kMsg, i8, 8)
           v0  == GetByte(N2kMsg, 0)
           v1  == GetByte(N2kMsg, i9)
       IN  [ret |-> TRUE,
            out |-> [AlertType            |-> BitAnd(v0, 15),
                     AlertCategory        |-> BitAnd(v0 \div 16, 15),
                     AlertSystem          |-> GetByte(N2kMsg, i1),
                     AlertSubSystem       |-> GetByte(N2kMsg, i2),
                     AlertID              |-> unsigned_int(Get2ByteInt(N2kMsg, i3), model),
                     SourceNetworkID      |-> GetUInt64(N2kMsg, i4),
                     DataSourceInstance   |-> GetByte(N2kMsg, i5),
                     DataSourceIndex      |-> GetByte(N2kMsg, i6),
                     AlertOccurence       |-> GetByte(N2kMsg, i7),
                     AcknowledgeNetworkID |-> GetUInt64(N2kMsg, i8),
                     ResponseCommand      |-> BitAnd(v1, 3)]]

\* The inline alias calls ParseN2kPGN126984 and ends without a return
\* statement: its bool result is indeterminate, one of `Indeterminate'.
Indeterminate == BOOLEAN

ParseN2kAlertResponse(N2kMsg, out, result) ==
  [ret |-> result, out |-> ParseN2kPGN126984(N2kMsg, out, AlertBuild).out]


----------------------------------------------------------------------------
(* PGN 126983, Alert.                                                      *)

\* the encoder writing the type in the high nibble of byte 0
SetN2kPGN126983_TypeHigh(AlertType, AlertCategory, AlertSystem, AlertSubSystem, AlertID, SourceNetworkID, DataSourceInstance, DataSourceIndex, AlertOccurence, AcknowledgeNetworkID, TriggerCondition, ThresholdStatus, AlertPriority, AlertState, TemporarySilenceStatus, AcknowledgeStatus, EscalationStatus, TemporarySilenceSupport, AcknowledgeSupport, EscalationSupport) ==
  LET m0  == [SetPGN(EmptyMsg, PGN126983) EXCEPT !.Priority = 2]
      m1  == AddByte(m0, BitOr(AlertType * 16, AlertCategory))
      m2  == AddByte(m1, AlertSystem)
      m3  == AddByte(m2, AlertSubSystem)
      m4  == Add2ByteUInt(m3, AlertID)
      m5  == AddUInt64(m4, SourceNetworkID)
      m6  == AddByte(m5, DataSourceInstance)
      m7  == AddByte(m6, DataSourceIndex)
      m8  == AddByte(m7, AlertOccurence)
      v   == BitOr(3 * 64, BitOr(EscalationSupport * 32, BitOr(AcknowledgeSupport * 16,
               BitOr(TemporarySilenceSupport * 8, BitOr(EscalationStatus * 4,
                 BitOr(AcknowledgeStatus * 2, TemporarySilenceStatus))))))
      m9  == AddByte(m8, v)
      m10 == AddUInt64(m9, AcknowledgeNetworkID)
      m11 == AddByte(m10, BitOr(ThresholdStatus * 16, TriggerCondition))
      m12 == AddByte(m11, AlertPriority)
  IN  AddByte(m12, AlertState)

SetN2kPGN126983(AlertType, AlertCategory, AlertSystem, AlertSubSystem, AlertID, SourceNetworkID, DataSourceInstance, DataSourceIndex, AlertOccurence, AcknowledgeNetworkID, TriggerCondition, ThresholdStatus, AlertPriority, AlertState, TemporarySilenceStatus, AcknowledgeStatus, EscalationStatus, TemporarySilenceSupport, AcknowledgeSupport, EscalationSupport) ==
  LET m0  == [SetPGN(EmptyMsg, PGN126983) EXCEPT !.Priority = 2]
      m1  == AddByte(m0, BitOr(AlertCategory * 16, AlertType))
      m2  == AddByte(m1, AlertSystem)
      m3  == AddByte(m2, AlertSubSystem)
      m4  == Add2ByteUInt(m3, AlertID)
      m5  == AddUInt64(m4, SourceNetworkID)
      m6  == AddByte(m5, DataSourceInstance)
      m7  == AddByte(m6, DataSourceIndex)
      m8  == AddByte(m7, AlertOccurence)
      v   == BitOr(3 * 64, BitOr(EscalationSupport * 32, BitOr(AcknowledgeSupport * 16,
               BitOr(TemporarySilenceSupport * 8, BitOr(EscalationStatus * 4,
                 BitOr(AcknowledgeStatus * 2, TemporarySilenceStatus))))))
      m9  == AddByte(m8, v)
      m10 == AddUInt64(m9, AcknowledgeNetworkID)
      m11 == AddByte(m10, BitOr(ThresholdStatus * 16, TriggerCondition))
      m12 == AddByte(m11, AlertPriority)
  IN  AddByte(m12, AlertState)

\* the decoder reading the three support flags one bit too low
ParseN2kPGN126983_SupportShifted(N2kMsg, out, model) ==
  IF N2kMsg.PGN # PGN126983 THEN [ret |-> FALSE, out |-> out]
  ELSE LET i1  == Advance(N2kMsg, 0, 1)
           i2  == Advance(N2kMsg, i1, 1)
           i3  == Advance(N2kMsg, i2, 1)
           i4  == Advance(N2kMsg, i3, 2)
           i5  == Advance(N2kMsg, i4, 8)
           i6  == Advance(N2kMsg, i5, 1)
           i7  == Advance(N2kMsg, i6, 1)
           i8  == Advance(N2kMsg, i7, 1)
           i9  == Advance(N2kMsg, i8, 1)
           i10 == Advance(N2kMsg, i9, 8)
           i11 == Advance(N2kMsg, i10, 1)
           i12 == Advance(N2kMsg, i11, 1)
           v0  == GetByte(N2kMsg, 0)
           v1  == GetByte(N2kMsg, i8)
           v2  == GetByte(N2kMsg, i10)
       IN  [ret |-> TRUE,
            out |-> [AlertType               |-> BitAnd(v0, 15),
                     AlertCategory           |-> BitAnd(v0 \div 16, 15),
                     AlertSystem             |-> GetByte(N2kMsg, i1),
                     AlertSubSystem          |-> GetByte(N2kMsg, i2),
                     AlertID                 |-> unsigned_int(Get2ByteInt(N2kMsg, i3), model),
                     SourceNetworkID         |-> GetUInt64(N2kMsg, i4),
                     DataSourceInstance      |-> GetByte(N2kMsg, i5),
                     DataSourceIndex         |-> GetByte(N2kMsg, i6),
                     AlertOccurence          |-> GetByte(N2kMsg, i7),
                     TemporarySilenceStatus  |-> BitAnd(v1, 1),
                     AcknowledgeStatus       |-> BitAnd(v1 \div 2, 1),
                     EscalationStatus        |-> BitAnd(v1 \div 4, 1),
                     TemporarySilenceSupport |-> BitAnd(v1 \div 4, 1),
                     AcknowledgeSupport      |-> BitAnd(v1 \div 8, 1),
                     EscalationSupport       |-> BitAnd(v1 \div 16, 1),
                     AcknowledgeNetworkID    |-> GetUInt64(N2kMsg, i9),
                     TriggerCondition        |-> BitAnd(v2, 15),
                     ThresholdStatus         |-> BitAnd(v2 \div 16, 15),
                     AlertPriority           |-> GetByte(N2kMsg, i11),
                     AlertState              |-> GetByte(N2kMsg, i12)]]

\* the decoder refusing a state that is not of the enumeration
ParseN2kPGN126983_StateChecked(N2kMsg, out, model) ==
  IF N2kMsg.PGN # PGN126983 THEN [ret |-> FALSE, out |-> out]
  ELSE LET i1  == Advance(N2kMsg, 0, 1)
           i2  == Advance(N2kMsg, i1, 1)
           i3  == Advance(N2kMsg, i2, 1)
           i4  == Advance(N2kMsg, i3, 2)
           i5  == Advance(N2kMsg, i4, 8)
           i6  == Advance(N2kMsg, i5, 1)
           i7  == Advance(N2kMsg, i6, 1)
           i8  == Advance(N2kMsg, i7, 1)
           i9  == Advance(N2kMsg, i8, 1)
           i10 == Advance(N2kMsg, i9, 8)
           i11 == Advance(N2kMsg, i10, 1)
           i12 == Advance(N2kMsg, i11, 1)
           v0  == GetByte(N2kMsg, 0)
           v1  == GetByte(N2kMsg, i8)
           v2  == GetByte(N2kMsg, i10)
       IN  [ret |-> GetByte(N2kMsg, i12) \in tN2kAlertState,
            out |-> [AlertType               |-> BitAnd(v0, 15),
                     AlertCategory           |-> BitAnd(v0 \div 16, 15),
                     AlertSystem             |-> GetByte(N2kMsg, i1),
                     AlertSubSystem          |-> GetByte(N2kMsg, i2),
                     AlertID                 |-> unsigned_int(Get2ByteInt(N2kMsg, i3), model),
                     SourceNetworkID         |-> GetUInt64(N2kMsg, i4),
                     DataSourceInstance      |-> GetByte(N2kMsg, i5),
                     DataSourceIndex         |-> GetByte(N2kMsg, i6),
                     AlertOccurence          |-> GetByte(N2kMsg, i7),
                     TemporarySilenceStatus  |-> BitAnd(v1, 1),
                     AcknowledgeStatus       |-> BitAnd(v1 \div 2, 1),
                     EscalationStatus        |-> BitAnd(v1 \div 4, 1),
                     TemporarySilenceSupport |-> BitAnd(v1 \div 8, 1),
                     AcknowledgeSupport      |-> BitAnd(v1 \div 16, 1),
                     EscalationSupport       |-> BitAnd(v1 \div 32, 1),
                     AcknowledgeNetworkID    |-> GetUInt64(N2kMsg, i9),
                     TriggerCondition        |-> BitAnd(v2, 15),
                     ThresholdStatus         |-> BitAnd(v2 \div 16, 15),
                     AlertPriority           |-> GetByte(N2kMsg, i11),
                     AlertState              |-> GetByte(N2kMsg, i12)]]

\* the decoder reading the escalation support from bits 5 to 7
ParseN2kPGN126983_SupportUnmasked(N2kMsg, out, model) ==
  IF N2kMsg.PGN # PGN126983 THEN [ret |-> FALSE, out |-> out]
  ELSE LET i1  == Advance(N2kMsg, 0, 1)
           i2  == Advance(N2kMsg, i1, 1)
           i3  == Advance(N2kMsg, i2, 1)
           i4  == Advance(N2kMsg, i3, 2)
           i5  == Advance(N2kMsg, i4, 8)
           i6  == Advance(N2kMsg, i5, 1)
           i7  == Advance(N2kMsg, i6, 1)
           i8  == Advance(N2kMsg, i7, 1)
           i9  == Advance(N2kMsg, i8, 1)
           i10 == Advance(N2kMsg, i9, 8)
           i11 == Advance(N2kMsg, i10, 1)
           i12 == Advance(N2kMsg, i11, 1)
           v0  == GetByte(N2kMsg, 0)
           v1  == GetByte(N2kMsg, i8)
           v2  == GetByte(N2kMsg, i10)
       IN  [ret |-> TRUE,
            out |-> [AlertType               |-> BitAnd(v0, 15),
                     AlertCategory           |-> BitAnd(v0 \div 16, 15),
                     AlertSystem             |-> GetByte(N2kMsg, i1),
                     AlertSubSystem          |-> GetByte(N2kMsg, i2),
                     AlertID                 |-> unsigned_int(Get2ByteInt(N2kMsg, i3), model),
                     SourceNetworkID         |-> GetUInt64(N2kMsg, i4),
                     DataSourceInstance      |-> GetByte(N2kMsg, i5),
                     DataSourceIndex         |-> GetByte(N2kMsg, i6),
                     AlertOccurence          |-> GetByte(N2kMsg, i7),
                     TemporarySilenceStatus  |-> BitAnd(v1, 1),
                     AcknowledgeStatus       |-> BitAnd(v1 \div 2, 1),
                     EscalationStatus        |-> BitAnd(v1 \div 4, 1),
                     TemporarySilenceSupport |-> BitAnd(v1 \div 8, 1),
                     AcknowledgeSupport      |-> BitAnd(v1 \div 16, 1),
                     EscalationSupport       |-> UChar(v1 \div 32),
                     AcknowledgeNetworkID    |-> GetUInt64(N2kMsg, i9),
                     TriggerCondition        |-> BitAnd(v2, 15),
                     ThresholdStatus         |-> BitAnd(v2 \div 16, 15),
                     AlertPriority           |-> GetByte(N2kMsg, i11),
                     AlertState              |-> GetByte(N2kMsg, i12)]]

ParseN2kPGN126983(N2kMsg, out, model) ==
  IF N2kMsg.PGN # PGN126983 THEN [ret |-> FALSE, out |-> out]
  ELSE LET i1  == Advance(N2kMsg, 0, 1)
           i2  == Advance(N2kMsg, i1, 1)
           i3  == Advance(N2kMsg, i2, 1)
           i4  == Advance(N2kMsg, i3, 2)
           i5  == Advance(N2kMsg, i4, 8)
           i6  == Advance(N2kMsg, i5, 1)
           i7  == Advance(N2kMsg, i6, 1)
           i8  == Advance(N2kMsg, i7, 1)
           i9  == Advance(N2kMsg, i8, 1)
           i10 == Advance(N2kMsg, i9, 8)
           i11 == Advance(N2kMsg, i10, 1)
           i12 == Advance(N2kMsg, i11, 1)
           v0  == GetByte(N2kMsg, 0)
           v1  == GetByte(N2kMsg, i8)
           v2  == GetByte(N2kMsg, i10)
       IN  [ret |-> TRUE,
            out |-> [AlertType               |-> BitAnd(v0, 15),
                     AlertCategory           |-> BitAnd(v0 \div 16, 15),
                     AlertSystem             |-> GetByte(N2kMsg, i1),
                     AlertSubSystem          |-> GetByte(N2kMsg, i2),
                     AlertID                 |-> unsigned_int(Get2ByteInt(N2kMsg, i3), model),
                     SourceNetworkID         |-> GetUInt64(N2kMsg, i4),
                     DataSourceInstance      |-> GetByte(N2kMsg, i5),
                     DataSourceIndex         |-> GetByte(N2kMsg, i6),
                     AlertOccurence          |-> GetByte(N2kMsg, i7),
                     TemporarySilenceStatus  |-> BitAnd(v1, 1),
                     AcknowledgeStatus       |-> BitAnd(v1 \div 2, 1),
                     EscalationStatus        |-> BitAnd(v1 \div 4, 1),
                     TemporarySilenceSupport |-> BitAnd(v1 \div 8, 1),
                     AcknowledgeSupport      |-> BitAnd(v1 \div 16, 1),
                     EscalationSupport       |-> BitAnd(v1 \div 32, 1),
                     AcknowledgeNetworkID    |-> GetUInt64(N2kMsg, i9),
                     TriggerCondition        |-> BitAnd(v2, 15),
                     ThresholdStatus         |-> BitAnd(v2 \div 16, 15),
                     AlertPriority           |-> GetByte(N2kMsg, i11),
                     AlertState              |-> GetByte(N2kMsg, i12)]]

----------------------------------------------------------------------------
(* PGN 126985, Alert Text.                                                 *)

SetN2kPGN126985(AlertType, AlertCategory, AlertSystem, AlertSubSystem, AlertID, SourceNetworkID, DataSourceInstance, DataSourceIndex, AlertOccurence, AlertLanguage, AlertTextDescription, AlertLocationTextDescription) ==
  LET m0  == [SetPGN(EmptyMsg, PGN126985) EXCEPT !.Priority = 2]
      m1  == AddByte(m0, BitOr(AlertCategory * 16, AlertType))
      m2  == AddByte(m1, AlertSystem)
      m3  == AddByte(m2, AlertSubSystem)
      m4  == Add2ByteUInt(m3, AlertID)
      m5  == AddUInt64(m4, SourceNetworkID)
      m6  == AddByte(m5, DataSourceInstance)
      m7  == AddByte(m6, DataSourceIndex)
      m8  == AddByte(m7, AlertOccurence)
      m9  == AddByte(m8, AlertLanguage)
      m10 == AddVarStr(m9, AlertTextDescription)
  IN  AddVarStr(m10, AlertLocationTextDescription)

\* the decoder testing the PGN after it has written its outputs
ParseN2kPGN126985_TestsLast(N2kMsg, out, model) ==
  LET i1  == Advance(N2kMsg, 0, 1)
      i2  == Advance(N2kMsg, i1, 1)
      i3  == Advance(N2kMsg, i2, 1)
      i4  == Advance(N2kMsg, i3, 2)
      i5  == Advance(N2kMsg, i4, 8)
      i6  == Advance(N2kMsg, i5, 1)
      i7  == Advance(N2kMsg, i6, 1)
      i8  == Advance(N2kMsg, i7, 1)
      i9  == Advance(N2kMsg, i8, 1)
      v0  == GetByte(N2kMsg, 0)
      s1  == GetVarStr(N2kMsg, sizeof_pointer(model), out.AlertTextDescription, i9)
      s2  == GetVarStr(N2kMsg, sizeof_pointer(model), out.AlertLocationTextDescription, s1.Index)
  IN  [ret |-> N2kMsg.PGN = PGN126985,
       out |-> [AlertType                    |-> BitAnd(v0, 15),
                AlertCategory                |-> BitAnd(v0 \div 16, 15),
                AlertSystem                  |-> GetByte(N2kMsg, i1),
                AlertSubSystem               |-> GetByte(N2kMsg, i2),
                AlertID                      |-> unsigned_int(Get2ByteInt(N2kMsg, i3), model),
                SourceNetworkID              |-> GetUInt64(N2kMsg, i4),
                DataSourceInstance           |-> GetByte(N2kMsg, i5),
                DataSourceIndex              |-> GetByte(N2kMsg, i6),
                AlertOccurence               |-> GetByte(N2kMsg, i7),
                AlertLanguage                |-> GetByte(N2kMsg, i8),
                AlertTextDescription         |-> s1.str,
                AlertLocationTextDescription |-> s2.str]]

\* AlertTextDescription and AlertLocationTextDescription of `out' are the
\* texts in the caller's two buffers; the size handed to GetVarStr is
\* sizeof of a char*, not the capacity of the buffer.
ParseN2kPGN126985(N2kMsg, out, model) ==
  IF N2kMsg.PGN # PGN126985 THEN [ret |-> FALSE, out |-> out]
  ELSE LET i1  == Advance(N2kMsg, 0, 1)
           i2  == Advance(N2kMsg, i1, 1)
           i3  == Advance(N2kMsg, i2, 1)
           i4  == Advance(N2kMsg, i3, 2)
           i5  == Advance(N2kMsg, i4, 8)
           i6  == Advance(N2kMsg, i5, 1)
           i7  == Advance(N2kMsg, i6, 1)
           i8  == Advance(N2kMsg, i7, 1)
           i9  == Advance(N2kMsg, i8, 1)
           v0  == GetByte(N2kMsg, 0)
           s1  == GetVarStr(N2kMsg, sizeof_pointer(model), out.AlertTextDescription, i9)
           s2  == GetVarStr(N2kMsg, sizeof_pointer(model), out.AlertLocationTextDescription, s1.Index)
       IN  [ret |-> TRUE,
            out |-> [AlertType                    |-> BitAnd(v0, 15),
                     AlertCategory                |-> BitAnd(v0 \div 16, 15),
                     AlertSystem                  |-> GetByte(N2kMsg, i1),
                     AlertSubSystem               |-> GetByte(N2kMsg, i2),
                     AlertID                      |-> unsigned_int(Get2ByteInt(N2kMsg, i3), model),
                     SourceNetworkID              |-> GetUInt64(N2kMsg, i4),
                     DataSourceInstance           |-> GetByte(N2kMsg, i5),
                     DataSourceIndex              |-> GetByte(N2kMsg, i6),
                     AlertOccurence               |-> GetByte(N2kMsg, i7),
                     AlertLanguage                |-> GetByte(N2kMsg, i8),
                     AlertTextDescription         |-> s1.str,
                     AlertLocationTextDescription |-> s2.str]]

----------------------------------------------------------------------------
(* The timer tN2kScheduler of the bus library, as the alert uses it: it    *)
(* holds the time NextTime, in milliseconds of the clock, after which it   *)
(* is due.                                                                 *)

\* tN2kScheduler(NextTime)
tN2kScheduler(NextTime) == NextTime

\* IsTime(): the clock has passed NextTime
IsTime(NextTime, clock) == clock > NextTime

\* FromNow(Add): due Add milliseconds from now
FromNow(clock, Add) == clock + Add

----------------------------------------------------------------------------
(* The members a private transition reads and writes, as a record.         *)

This ==
  [AlertState             |-> _AlertState,
   ThresholdStatus        |-> _ThresholdStatus,
   Occurence              |-> _Occurence,
   OccurenceThreshold     |-> _OccurenceThreshold,
   TemporarySilenceStatus |-> _TemporarySilenceStatus,
   AcknowledgeStatus      |-> _AcknowledgeStatus]

\* the members take the values of record a; _OccurenceThreshold is not
\* written by any transition
Becomes(a) ==
  /\ _AlertState' = a.AlertState
  /\ _ThresholdStatus' = a.ThresholdStatus
  /\ _Occurence' = a.Occurence
  /\ _TemporarySilenceStatus' = a.TemporarySilenceStatus
  /\ _AcknowledgeStatus' = a.AcknowledgeStatus

\* SetAlertExceeded without the occurrence threshold: the first exceeding
\* sample makes the status Exceeded
SetAlertExceeded_NoDebounce(a) ==
  LET a2 == IF a.ThresholdStatus = N2kts_AlertThresholdStatusNormal
            THEN [a EXCEPT !.Occurence = (@ + 1) % 256,
                           !.ThresholdStatus = N2kts_AlertThresholdStatusExceeded]
            ELSE a
  IN  IF a2.ThresholdStatus = N2kts_AlertThresholdStatusExceeded
      THEN IF a2.AcknowledgeStatus = N2kts_AlertYes
           THEN [a2 EXCEPT !.AlertState = N2kts_AlertStateAcknowledged,
                           !.ThresholdStatus = N2kts_AlertThresholdStatusAcknowledged]
           ELSE IF a2.TemporarySilenceStatus = N2kts_AlertYes
           THEN [a2 EXCEPT !.AlertState = N2kts_AlertStateSilenced]
           ELSE [a2 EXCEPT !.AlertState = N2kts_AlertStateActive]
      ELSE a2

\* SetAlertExceeded comparing the occurrence before it is counted against
\* one less than the threshold: Exceeded one sample early
SetAlertExceeded_OneEarly(a) ==
  LET a1 == IF a.Occurence > 250 THEN [a EXCEPT !.Occurence = 0] ELSE a
      a2 == IF a1.ThresholdStatus = N2kts_AlertThresholdStatusNormal
            THEN LET inc == [a1 EXCEPT !.Occurence = (@ + 1) % 256]
                 IN  IF inc.Occurence + 1 >= inc.OccurenceThreshold
                     THEN [inc EXCEPT !.ThresholdStatus = N2kts_AlertThresholdStatusExceeded]
                     ELSE inc
            ELSE a1
  IN  IF a2.ThresholdStatus = N2kts_AlertThresholdStatusExceeded
      THEN IF a2.AcknowledgeStatus = N2kts_AlertYes
           THEN [a2 EXCEPT !.AlertState = N2kts_AlertStateAcknowledged,
                           !.ThresholdStatus = N2kts_AlertThresholdStatusAcknowledged]
           ELSE IF a2.TemporarySilenceStatus = N2kts_AlertYes
           THEN [a2 EXCEPT !.AlertState = N2kts_AlertStateSilenced]
           ELSE [a2 EXCEPT !.AlertState = N2kts_AlertStateActive]
      ELSE a2

\* SetAlertExceeded testing the silence status after the acknowledge status:
\* silence wins when both are set
SetAlertExceeded_SilenceLast(a) ==
  LET a1 == IF a.Occurence > 250 THEN [a EXCEPT !.Occurence = 0] ELSE a
      a2 == IF a1.ThresholdStatus = N2kts_AlertThresholdStatusNormal
            THEN LET inc == [a1 EXCEPT !.Occurence = (@ + 1) % 256]
                 IN  IF inc.Occurence >= inc.OccurenceThreshold
                     THEN [inc EXCEPT !.ThresholdStatus = N2kts_AlertThresholdStatusExceeded]
                     ELSE inc
            ELSE a1
  IN  IF a2.ThresholdStatus = N2kts_AlertThresholdStatusExceeded
      THEN IF a2.TemporarySilenceStatus = N2kts_AlertYes
           THEN [a2 EXCEPT !.AlertState = N2kts_AlertStateSilenced]
           ELSE IF a2.AcknowledgeStatus = N2kts_AlertYes
           THEN [a2 EXCEPT !.AlertState = N2kts_AlertStateAcknowledged,
                           !.ThresholdStatus = N2kts_AlertThresholdStatusAcknowledged]
           ELSE [a2 EXCEPT !.AlertState = N2kts_AlertStateActive]
      ELSE a2

\* SetAlertExceeded setting the state Acknowledged and leaving the threshold
\* status Exceeded
SetAlertExceeded_StateOnly(a) ==
  LET a1 == IF a.Occurence > 250 THEN [a EXCEPT !.Occurence = 0] ELSE a
      a2 == IF a1.ThresholdStatus = N2kts_AlertThresholdStatusNormal
            THEN LET inc == [a1 EXCEPT !.Occurence = (@ + 1) % 256]
                 IN  IF inc.Occurence >= inc.OccurenceThreshold
                     THEN [inc EXCEPT !.ThresholdStatus = N2kts_AlertThresholdStatusExceeded]
                     ELSE inc
            ELSE a1
  IN  IF a2.ThresholdStatus = N2kts_AlertThresholdStatusExceeded
      THEN IF a2.AcknowledgeStatus = N2kts_AlertYes
           THEN [a2 EXCEPT !.AlertState = N2kts_AlertStateAcknowledged]
           ELSE IF a2.TemporarySilenceStatus = N2kts_AlertYes
           THEN [a2 EXCEPT !.AlertState = N2kts_AlertStateSilenced]
           ELSE [a2 EXCEPT !.AlertState = N2kts_AlertStateActive]
      ELSE a2

\* SetAlertExceeded without the reset of an occurrence counter above 250
SetAlertExceeded_NoReset(a) ==
  LET a1 == a
      a2 == IF a1.ThresholdStatus = N2kts_AlertThresholdStatusNormal
            THEN LET inc == [a1 EXCEPT !.Occurence = (@ + 1) % 256]
                 IN  IF inc.Occurence >= inc.OccurenceThreshold
                     THEN [inc EXCEPT !.ThresholdStatus = N2kts_AlertThresholdStatusExceeded]
                     ELSE inc
            ELSE a1
  IN  IF a2.ThresholdStatus = N2kts_AlertThresholdStatusExceeded
      THEN LET s1 == [a2 EXCEPT !.AlertState = N2kts_AlertStateActive]
               s2 == IF s1.TemporarySilenceStatus = N2kts_AlertYes
                     THEN [s1 EXCEPT !.AlertState = N2kts_AlertStateSilenced]
                     ELSE s1
           IN  IF s2.AcknowledgeStatus = N2kts_AlertYes
               THEN [s2 EXCEPT !.AlertState = N2kts_AlertStateAcknowledged,
                               !.ThresholdStatus = N2kts_AlertThresholdStatusAcknowledged]
               ELSE s2
      ELSE a2

\* tN2kAlert::SetAlertExceeded
SetAlertExceeded(a) ==
  LET a1 == IF a.Occurence > 250 THEN [a EXCEPT !.Occurence = 0] ELSE a
      a2 == IF a1.ThresholdStatus = N2kts_AlertThresholdStatusNormal
            THEN LET inc == [a1 EXCEPT !.Occurence = (@ + 1) % 256]
                 IN  IF inc.Occurence >= inc.OccurenceThreshold
                     THEN [inc EXCEPT !.ThresholdStatus = N2kts_AlertThresholdStatusExceeded]
                     ELSE inc
            ELSE a1
  IN  IF a2.ThresholdStatus = N2kts_AlertThresholdStatusExceeded
      THEN LET s1 == [a2 EXCEPT !.AlertState = N2kts_AlertStateActive]
               s2 == IF s1.TemporarySilenceStatus = N2kts_AlertYes
                     THEN [s1 EXCEPT !.AlertState = N2kts_AlertStateSilenced]
                     ELSE s1
           IN  IF s2.AcknowledgeStatus = N2kts_AlertYes
               THEN [s2 EXCEPT !.AlertState = N2kts_AlertStateAcknowledged,
                               !.ThresholdStatus = N2kts_AlertThresholdStatusAcknowledged]
               ELSE s2
      ELSE a2

\* ResetAlert leaving the occurrence counter as it is
ResetAlert_KeepsOccurence(a) ==
  [a EXCEPT !.ThresholdStatus = N2kts_AlertThresholdStatusNormal,
            !.AlertState = N2kts_AlertStateNormal,
            !.AcknowledgeStatus = N2kts_AlertNo]

\* ResetAlert clearing the silence status as well
ResetAlert_ClearsSilence(a) ==
  [a EXCEPT !.ThresholdStatus = N2kts_AlertThresholdStatusNormal,
            !.AlertState = N2kts_AlertStateNormal,
            !.AcknowledgeStatus = N2kts_AlertNo,
            !.TemporarySilenceStatus = N2kts_AlertNo,
            !.Occurence = 0]

\* ResetAlert leaving the alert state as it is
ResetAlert_StatusOnly(a) ==
  [a EXCEPT !.ThresholdStatus = N2kts_AlertThresholdStatusNormal,
            !.AcknowledgeStatus = N2kts_AlertNo,
            !.Occurence = 0]

\* tN2kAlert::ResetAlert
ResetAlert(a) ==
  [a EXCEPT !.ThresholdStatus = N2kts_AlertThresholdStatusNormal,
            !.AlertState = N2kts_AlertStateNormal,
            !.AcknowledgeStatus = N2kts_AlertNo,
            !.Occurence = 0]

\* The switch with the method Greater comparing with >=
ThresholdSwitch_GreaterOrEqual(Method, v, Level) ==
  CASE Method = N2kts_AlertThresholddMethodGreater ->
         IF v >= Level THEN "SetAlertExceeded" ELSE "ResetAlert"
    [] Method = N2kts_AlertThresholdMethodLower ->
         IF v < Level THEN "SetAlertExceeded" ELSE "ResetAlert"
    [] Method = N2kts_AlertThresholdMethodEqual ->
         IF v = Level THEN "SetAlertExceeded" ELSE "ResetAlert"
    [] OTHER -> "none"

\* The switch of TestAlertThreshold: the private transition the call
\* performs for sample v; none when the method is no enumerator.
ThresholdSwitch(Method, v, Level) ==
  CASE Method = N2kts_AlertThresholddMethodGreater ->
         IF v > Level THEN "SetAlertExceeded" ELSE "ResetAlert"
    [] Method = N2kts_AlertThresholdMethodLower ->
         IF v < Level THEN "SetAlertExceeded" ELSE "ResetAlert"
    [] Method = N2kts_AlertThresholdMethodEqual ->
         IF v = Level THEN "SetAlertExceeded" ELSE "ResetAlert"
    [] OTHER -> "none"

\* The end of TestAlertThreshold clearing the silence status of an expired
\* timer only when the alert is back to Normal
SilenceExpiry_OnlyWhenNormal(a, NextTime, clock) ==
  IF IsTime(NextTime, clock) /\ a.AlertState = N2kts_AlertStateNormal
  THEN [a EXCEPT !.TemporarySilenceStatus = N2kts_AlertNo]
  ELSE a

\* The expiry test left out: the silence status is never cleared.
SilenceExpiry_Forgotten(a, NextTime, clock) == a

\* The end of TestAlertThreshold: an expired silence timer clears the
\* silence status.
SilenceExpiry(a, NextTime, clock) ==
  IF IsTime(NextTime, clock)
  THEN [a EXCEPT !.TemporarySilenceStatus = N2kts_AlertNo]
  ELSE a

\* The switch with Acknowledge setting the state at once, where it is
\* SetAlertExceeded that sets it
ResponseSwitch_StateAtOnce(a, ResponseCommand) ==
  CASE ResponseCommand = N2kts_AlertResponseAcknowledge ->
         [a EXCEPT !.AcknowledgeStatus = N2kts_AlertYes,
                   !.AlertState = N2kts_AlertStateAcknowledged]
    [] ResponseCommand = N2kts_AlertResponseTemporarySilence ->
         [a EXCEPT !.TemporarySilenceStatus = N2kts_AlertYes]
    [] OTHER -> a

\* The switch of ParseAlertResponse on the response command.
ResponseSwitch(a, ResponseCommand) ==
  CASE ResponseCommand = N2kts_AlertResponseAcknowledge ->
         [a EXCEPT !.AcknowledgeStatus = N2kts_AlertYes]
    [] ResponseCommand = N2kts_AlertResponseTemporarySilence ->
         [a EXCEPT !.TemporarySilenceStatus = N2kts_AlertYes]
    [] OTHER -> a

\* the record of a public call: the operation, its scalar arguments, the
\* message it is given, the boolean and the threshold status it returns, the
\* private transition it performed and the alert state it found; what an
\* operation does not have holds a fixed value
Call(op, arg, msg, ret, returned, did) ==
  [op |-> op, arg |-> arg, msg |-> msg, ret |-> ret, status |-> returned,
   did |-> did, from |-> _AlertState]


----------------------------------------------------------------------------
(* The inputs of the model.                                                *)

\* the Alert Response messages a peer sends, built by the encoder
ResponseMessages ==
  { SetN2kPGN126984(N2kts_AlertTypeWarning, N2kts_AlertCategoryTechnical, to[1], to[2], 1, 1, 0, 0, 1, 1, c) :
      to \in Addressees, c \in tN2kAlertResponseCommand }

\* messages of another PGN
OtherMessages ==
  { [m EXCEPT !.PGN = PGN126983] :
      m \in { SetN2kPGN126984(N2kts_AlertTypeWarning, N2kts_AlertCategoryTechnical, 0, 0, 1, 1, 0, 0, 1, 1, c) :
                c \in {N2kts_AlertResponseAcknowledge} } }

Messages == ResponseMessages \cup OtherMessages

\* what the locals of ParseAlertResponse may hold before the decoder writes
\* them: they are not initialised
UnsetLocals ==
  { [AlertType |-> 0, AlertCategory |-> 0, AlertSystem |-> to[1], AlertSubSystem |-> to[2],
     AlertID |-> 0, SourceNetworkID |-> 0, DataSourceInstance |-> 0, DataSourceIndex |-> 0,
     AlertOccurence |-> 0, AcknowledgeNetworkID |-> 0, ResponseCommand |-> c] :
      to \in Addressees,
      c \in {N2kts_AlertResponseAcknowledge, N2kts_AlertResponseTemporarySilence, UnsetCommand} }

\* those locals at a call with message N2kMsg whose decoding returns
\* `result': the decoder overwrites every one of them when the PGN is its
\* own, and they are not read when the result is false, so their first
\* values matter only for another PGN and a true result
LocalsAt(N2kMsg, result) ==
  IF N2kMsg.PGN # PGN126984 /\ result
  THEN UnsetLocals
  ELSE {CHOOSE l \in UnsetLocals : TRUE}

----------------------------------------------------------------------------
(* Construction.                                                           *)

\* construction that takes the acknowledge status from the acknowledge
\* support argument
Constructed_StatusFromSupport(AlertType, AlertCategory, AlertId, TriggerCondition, AlertPriority, TemporarySilenceSupport, AcknowledgeSupport, EscalationSupport) ==
  /\ _AlertType = AlertType
  /\ _AlertCategory = AlertCategory
  /\ _AlertId = AlertId
  /\ _AlertPriority = AlertPriority
  /\ _AlertState = N2kts_AlertStateNormal
  /\ _TemporarySilenceSupport = TemporarySilenceSupport
  /\ _AcknowledgeSupport = AcknowledgeSupport
  /\ _EscalationSupport = EscalationSupport
  /\ _TemporarySilenceStatus = N2kts_AlertNo
  /\ _AcknowledgeStatus = AcknowledgeSupport
  /\ _EscalationStatus = N2kts_AlertNo
  /\ _Occurence = 0
  /\ _TriggerCondition = TriggerCondition
  /\ _ThresholdStatus = N2kts_AlertThresholdStatusNormal
  /\ _TemporarySilenceDelay = 3600 * 1000
  /\ _TemporarySilenceTimer = tN2kScheduler(3600 * 1000)
  /\ _AlertSystem \in AlertSystems
  /\ _AlertSubSystem \in AlertSubSystems
  /\ _AlertDescription \in UnsetTexts
  /\ _AlertLocation \in UnsetTexts
  /\ _ThresholdMethod \in t2kNAlertThresholdMethod \cup {UnsetMethod}
  /\ _ThresholdFormat = 0
  /\ _ThresholdLevel \in Levels
  /\ now = 0

\* what both constructors do; the members they leave unset hold any value
Constructed(AlertType, AlertCategory, AlertId, TriggerCondition, AlertPriority, TemporarySilenceSupport, AcknowledgeSupport, EscalationSupport) ==
  /\ _AlertType = AlertType
  /\ _AlertCategory = AlertCategory
  /\ _AlertId = AlertId
  /\ _AlertPriority = AlertPriority
  /\ _AlertState = N2kts_AlertStateNormal
  /\ _TemporarySilenceSupport = TemporarySilenceSupport
  /\ _AcknowledgeSupport = AcknowledgeSupport
  /\ _EscalationSupport = EscalationSupport
  /\ _TemporarySilenceStatus = N2kts_AlertNo
  /\ _AcknowledgeStatus = N2kts_AlertNo
  /\ _EscalationStatus = N2kts_AlertNo
  /\ _Occurence = 0
  /\ _TriggerCondition = TriggerCondition
  /\ _ThresholdStatus = N2kts_AlertThresholdStatusNormal
  /\ _TemporarySilenceDelay = 3600 * 1000
  /\ _TemporarySilenceTimer = tN2kScheduler(3600 * 1000)
  /\ _AlertSystem \in AlertSystems
  /\ _AlertSubSystem \in AlertSubSystems
  /\ _AlertDescription \in UnsetTexts
  /\ _AlertLocation \in UnsetTexts
  /\ _ThresholdMethod \in t2kNAlertThresholdMethod \cup {UnsetMethod}
  /\ _ThresholdFormat = 0
  /\ _ThresholdLevel \in Levels
  /\ now = 0

\* the value the nine-argument constructor leaves in _OccurenceThreshold
ConstructedThreshold(OccurenceThreshold) ==
  IF OccurenceThreshold > 250 THEN 1
  ELSE IF OccurenceThreshold = 0 THEN 1
  ELSE OccurenceThreshold

\* tN2kAlert::tN2kAlert with eight arguments: _OccurenceThreshold is not
\* set and holds any of the values Unset; the support flags are from Supports
Construct8(Supports, Unset) ==
  \E Support \in Supports :
    /\ Constructed(N2kts_AlertTypeWarning, N2kts_AlertCategoryTechnical, 1, N2kts_AlertTriggerAuto, 100,
                   Support[1], Support[2], Support[3])
    /\ _OccurenceThreshold \in Unset
    /\ call = Call("tN2kAlert", <<>>, EmptyMsg, FALSE, N2kts_AlertThresholdStatusNormal, "none")

\* tN2kAlert::tN2kAlert with nine arguments, the ninth from Args
Construct9(Supports, Args) ==
  \E Support \in Supports, OccurenceThreshold \in Args :
    /\ Constructed(N2kts_AlertTypeWarning, N2kts_AlertCategoryTechnical, 1, N2kts_AlertTriggerAuto, 100,
                   Support[1], Support[2], Support[3])
    /\ _OccurenceThreshold = ConstructedThreshold(OccurenceThreshold)
    /\ call = Call("tN2kAlert", <<OccurenceThreshold>>, EmptyMsg, FALSE, N2kts_AlertThresholdStatusNormal, "none")

tN2kAlert8 == Construct8(SupportArgs, ThresholdArgs)

tN2kAlert9 == Construct9(SupportArgs, ThresholdArgs)

\* no encoder or decoder has been called
NoCodec ==
  [pc |-> "idle", by |-> "none", sent |-> [AlertID |-> 0], msg |-> EmptyMsg,
   ret |-> FALSE, out |-> [AlertID |-> 0]]

Init == (tN2kAlert8 \/ tN2kAlert9) /\ build = AlertBuild /\ codec = NoCodec

----------------------------------------------------------------------------
(* The public operations.                                                  *)

\* the arguments of a call of SetAlertSystem as numbers: the system, the
\* subsystem, the lengths of the two texts and then their bytes
SystemArgs(Alertsystem, AlertSubsystem, AlertDescription, AlertLocation) ==
  <<Alertsystem, AlertSubsystem, Len(AlertDescription), Len(AlertLocation)>>
    \o AlertDescription \o AlertLocation

\* tN2kAlert::SetAlertSystem (the system, the subsystem and the two texts)
SetAlertSystem(Alertsystem, AlertSubsystem, AlertDescription, AlertLocation) ==
  /\ _AlertSystem' = Alertsystem
  /\ _AlertSubSystem' = AlertSubsystem
  /\ _AlertDescription' = strlcpy(_AlertDescription, AlertDescription, String_Len)
  /\ _AlertLocation' = strlcpy(_AlertLocation, AlertLocation, String_Len)
  /\ call' = Call("SetAlertSystem", SystemArgs(Alertsystem, AlertSubsystem, AlertDescription, AlertLocation), EmptyMsg, FALSE, N2kts_AlertThresholdStatusNormal, "none")
  /\ UNCHANGED <<identity, threshold, _OccurenceThreshold, _TemporarySilenceDelay,
                 status, _TemporarySilenceTimer, now, harness>>

\* tN2kAlert::SetAlertThreshold
SetAlertThreshold(Method, Format, Level) ==
  /\ _ThresholdMethod' = Method
  /\ _ThresholdFormat' = Format
  /\ _ThresholdLevel' = Level
  /\ call' = Call("SetAlertThreshold", <<Method, Format, Level>>, EmptyMsg, FALSE, N2kts_AlertThresholdStatusNormal, "none")
  /\ UNCHANGED <<identity, system, _OccurenceThreshold, _TemporarySilenceDelay,
                 status, _TemporarySilenceTimer, now, harness>>

\* the value SetOccurenceThreshold leaves in _OccurenceThreshold
SetThreshold(t) == IF t = 0 THEN 1 ELSE t

\* tN2kAlert::SetOccurenceThreshold
SetOccurenceThreshold(t) ==
  /\ _OccurenceThreshold' = SetThreshold(t)
  /\ call' = Call("SetOccurenceThreshold", <<t>>, EmptyMsg, FALSE, N2kts_AlertThresholdStatusNormal, "none")
  /\ UNCHANGED <<identity, system, threshold, _TemporarySilenceDelay,
                 status, _TemporarySilenceTimer, now, harness>>

\* tN2kAlert::SetTemporarySilenceTime
SetTemporarySilenceTime(seconds) ==
  /\ _TemporarySilenceDelay' = seconds * 1000
  /\ call' = Call("SetTemporarySilenceTime", <<seconds>>, EmptyMsg, FALSE, N2kts_AlertThresholdStatusNormal, "none")
  /\ UNCHANGED <<identity, system, threshold, _OccurenceThreshold,
                 status, _TemporarySilenceTimer, now, harness>>

\* tN2kAlert::TestAlertThreshold
TestAlertThreshold(v) ==
  LET did == ThresholdSwitch(_ThresholdMethod, v, _ThresholdLevel)
      a   == CASE did = "SetAlertExceeded" -> SetAlertExceeded(This)
               [] did = "ResetAlert" -> ResetAlert(This)
               [] OTHER -> This
  IN  \E b \in {SilenceExpiry(a, _TemporarySilenceTimer, now)} :
      /\ Becomes(b)
      /\ call' = Call("TestAlertThreshold", <<v>>, EmptyMsg, FALSE, b.ThresholdStatus, did)
      /\ UNCHANGED <<identity, system, threshold, _OccurenceThreshold, _TemporarySilenceDelay,
                     _EscalationStatus, _TemporarySilenceTimer, now, harness>>

\* ParseAlertResponse handing the member _AlertSystem to the decoder in
\* place of the local AlertSystem
ParseAlertResponse_IntoMember(N2kMsg) ==
  \E result \in Indeterminate :
  \E locals \in LocalsAt(N2kMsg, result) :
  \E p \in {ParseN2kAlertResponse(N2kMsg, locals, result)} :
    LET mine  == p.out.AlertSubSystem = _AlertSubSystem
        a     == IF p.ret /\ mine THEN ResponseSwitch(This, p.out.ResponseCommand) ELSE This
        armed == p.ret /\ mine /\ p.out.ResponseCommand = N2kts_AlertResponseTemporarySilence
    IN  /\ Becomes(a)
        /\ _AlertSystem' = IF N2kMsg.PGN = PGN126984 THEN p.out.AlertSystem ELSE _AlertSystem
        /\ _TemporarySilenceTimer' =
             IF armed THEN FromNow(now, _TemporarySilenceDelay) ELSE _TemporarySilenceTimer
        /\ call' = Call("ParseAlertResponse", <<>>, N2kMsg, p.ret, N2kts_AlertThresholdStatusNormal, "none")
        /\ UNCHANGED <<identity, _AlertSubSystem, _AlertDescription, _AlertLocation, threshold,
                       _OccurenceThreshold, _TemporarySilenceDelay, _EscalationStatus, now, harness>>

\* tN2kAlert::ParseAlertResponse
ParseAlertResponse(N2kMsg) ==
  \E result \in Indeterminate :
  \E locals \in LocalsAt(N2kMsg, result) :
  \E p \in {ParseN2kAlertResponse(N2kMsg, locals, result)} :
    LET mine  == p.out.AlertSystem = _AlertSystem /\ p.out.AlertSubSystem = _AlertSubSystem
        a     == IF p.ret /\ mine THEN ResponseSwitch(This, p.out.ResponseCommand) ELSE This
        armed == p.ret /\ mine /\ p.out.ResponseCommand = N2kts_AlertResponseTemporarySilence
    IN  /\ Becomes(a)
        /\ _TemporarySilenceTimer' =
             IF armed THEN FromNow(now, _TemporarySilenceDelay) ELSE _TemporarySilenceTimer
        /\ call' = Call("ParseAlertResponse", <<>>, N2kMsg, p.ret, N2kts_AlertThresholdStatusNormal, "none")
        /\ UNCHANGED <<identity, system, threshold, _OccurenceThreshold, _TemporarySilenceDelay,
                       _EscalationStatus, now, harness>>

\* the millisecond clock advances
Tick ==
  /\ now + TickMs <= MaxTicks * TickMs
  /\ now' = now + TickMs
  /\ call' = Call("Tick", <<>>, EmptyMsg, FALSE, N2kts_AlertThresholdStatusNormal, "none")
  /\ UNCHANGED <<alert, harness>>

DoSetAlertSystem ==
  \E s \in AlertSystems, ss \in AlertSubSystems, d \in Descriptions, l \in Descriptions :
    SetAlertSystem(s, ss, d, l)

DoSetAlertThreshold == \E m \in t2kNAlertThresholdMethod, l \in Levels : SetAlertThreshold(m, 0, l)

DoSetOccurenceThreshold == \E t \in ThresholdArgs : SetOccurenceThreshold(t)

DoSetTemporarySilenceTime == \E s \in SilenceSeconds : SetTemporarySilenceTime(s)

DoTestAlertThreshold == \E v \in Samples : TestAlertThreshold(v)

DoParseAlertResponse == \E m \in Messages : ParseAlertResponse(m)

Next ==
  \/ DoSetAlertSystem
  \/ DoSetAlertThreshold
  \/ DoSetOccurenceThreshold
  \/ DoSetTemporarySilenceTime
  \/ DoTestAlertThreshold
  \/ DoParseAlertResponse
  \/ Tick

Spec == Init /\ [][Next]_vars

----------------------------------------------------------------------------
(* The getters and the queries.  A getter returns a member; the value it   *)
(* returns is recorded in the field `status' of the call.  A query returns *)
(* a boolean, recorded in the field `ret'.                                 *)

\* the getters of tN2kAlert: each returns its member and writes nothing
Get(getter) ==
  /\ call' = Call(getter, <<>>, EmptyMsg, FALSE,
                  CASE getter = "GetAlertID" -> _AlertId
                    [] getter = "GetAlertType" -> _AlertType
                    [] getter = "GetAlertCategory" -> _AlertCategory
                    [] getter = "GetAlertThresholdStatus" -> _ThresholdStatus
                    [] getter = "GetAlertState" -> _AlertState
                    [] getter = "GetTemporarySilenceSupport" -> _TemporarySilenceSupport
                    [] getter = "GetAcknowledgeSupport" -> _AcknowledgeSupport
                    [] getter = "GetEscalationSupport" -> _EscalationSupport
                    [] getter = "GetTemporarySilenceStatus" -> _TemporarySilenceStatus
                    [] getter = "GetAcknowledgeStatus" -> _AcknowledgeStatus
                    [] getter = "GetEscalationStatus" -> _EscalationStatus
                    [] getter = "GetOccurenceThreshold" -> _OccurenceThreshold,
                  "none")
  /\ UNCHANGED <<alert, now, harness>>

\* a query on the members a: the boolean it returns and the members after it
\* tN2kAlert::isAlert
isAlert(a) == [ret |-> a.ThresholdStatus # N2kts_AlertThresholdStatusNormal, a |-> a]

\* isAcknowledged with an assignment in place of the comparison
isAcknowledged_Assigns(a) ==
  [ret |-> N2kts_AlertYes # 0, a |-> [a EXCEPT !.AcknowledgeStatus = N2kts_AlertYes]]

\* tN2kAlert::isAcknowledged
isAcknowledged(a) == [ret |-> a.AcknowledgeStatus = N2kts_AlertYes, a |-> a]

\* tN2kAlert::isSilent
isSilent(a) == [ret |-> a.TemporarySilenceStatus = N2kts_AlertYes, a |-> a]

\* a call of the query named
Ask(query) ==
  \E p \in {CASE query = "isAlert" -> isAlert(This)
              [] query = "isAcknowledged" -> isAcknowledged(This)
              [] query = "isSilent" -> isSilent(This)} :
    /\ Becomes(p.a)
    /\ call' = Call(query, <<>>, EmptyMsg, p.ret, N2kts_AlertThresholdStatusNormal, "none")
    /\ UNCHANGED <<identity, system, threshold, _OccurenceThreshold, _TemporarySilenceDelay,
                   _EscalationStatus, _TemporarySilenceTimer, now, harness>>

\* the getters, with the member each returns
Getters ==
  [GetAlertID |-> _AlertId, GetAlertType |-> _AlertType, GetAlertCategory |-> _AlertCategory,
   GetAlertThresholdStatus |-> _ThresholdStatus, GetAlertState |-> _AlertState,
   GetTemporarySilenceSupport |-> _TemporarySilenceSupport,
   GetAcknowledgeSupport |-> _AcknowledgeSupport, GetEscalationSupport |-> _EscalationSupport,
   GetTemporarySilenceStatus |-> _TemporarySilenceStatus,
   GetAcknowledgeStatus |-> _AcknowledgeStatus, GetEscalationStatus |-> _EscalationStatus,
   GetOccurenceThreshold |-> _OccurenceThreshold]

\* the queries, with what each tells
Queries ==
  [isAlert |-> _ThresholdStatus # N2kts_AlertThresholdStatusNormal,
   isAcknowledged |-> _AcknowledgeStatus = N2kts_AlertYes,
   isSilent |-> _TemporarySilenceStatus = N2kts_AlertYes]

\* samples, responses and a change of the threshold between the reads
QueryNext ==
  \/ DoSetAlertThreshold
  \/ DoSetTemporarySilenceTime
  \/ DoTestAlertThreshold
  \/ DoParseAlertResponse
  \/ \E getter \in DOMAIN Getters : Get(getter)
  \/ \E query \in DOMAIN Queries : Ask(query)

QuerySpec == Init /\ [][QueryNext]_vars

----------------------------------------------------------------------------
(* The texts of the alert.                                                 *)

\* the text of n bytes: letters, none of them NUL
Text(n) == [k \in 1..n |-> 65 + (k % 26)]

\* the lengths of the texts given: short ones and those about String_Len
TextLengths == {0, 1, 2} \cup ((String_Len - 2)..(String_Len + 2))

LongTexts == { Text(n) : n \in TextLengths }

TextInit == tN2kAlert9 /\ build = AlertBuild /\ codec = NoCodec

TextNext ==
  \E s \in AlertSystems, ss \in AlertSubSystems, d \in LongTexts, l \in LongTexts :
    SetAlertSystem(s, ss, d, l)

TextSpec == TextInit /\ [][TextNext]_vars

----------------------------------------------------------------------------
(* The occurrence threshold over the whole range of its type: the alert is *)
(* constructed with any support flags and any uint8_t value, and          *)
(* SetOccurenceThreshold is called with any uint8_t value.                 *)

\* the values of a uint8_t
uint8_t == 0..255

\* every combination of the three support flags
AllSupports == tN2kAlertYesNo \X tN2kAlertYesNo \X tN2kAlertYesNo

ThresholdInit ==
  /\ Construct8(AllSupports, uint8_t) \/ Construct9(AllSupports, uint8_t)
  /\ build = AlertBuild
  /\ codec = NoCodec

ThresholdNext == \E t \in uint8_t : SetOccurenceThreshold(t)

ThresholdSpec == ThresholdInit /\ [][ThresholdNext]_vars

----------------------------------------------------------------------------
(* The occurrence counter over long runs of samples, with every value the  *)
(* occurrence threshold can hold.                                          *)

\* one alert with the method Greater; _OccurenceThreshold holds any value
\* of its type: the eight-argument constructor leaves it unset, the
\* nine-argument one is given any value
OccurenceInit ==
  /\ Construct8(SupportArgs, uint8_t) \/ Construct9(SupportArgs, uint8_t)
  /\ _AlertSystem = 0
  /\ _ThresholdMethod = N2kts_AlertThresholddMethodGreater
  /\ build = AlertBuild
  /\ codec = NoCodec

\* the responses addressed to the alert that change its status
OwnResponses ==
  { SetN2kPGN126984(N2kts_AlertTypeWarning, N2kts_AlertCategoryTechnical, 0, 0, 1, 1, 0, 0, 1, 1, c) :
      c \in {N2kts_AlertResponseAcknowledge, N2kts_AlertResponseTemporarySilence} }

OccurenceNext ==
  \/ DoTestAlertThreshold
  \/ \E m \in OwnResponses : ParseAlertResponse(m)

OccurenceSpec == OccurenceInit /\ [][OccurenceNext]_vars

\* ---------------------------------------------------------------------
\* A condition that persists: the occurrence threshold is whatever the
\* constructor or one call of its setter left, and from then on
\* TestAlertThreshold is called again and again with exceeding samples.
ConfigureOccurenceThreshold ==
  /\ call.op = "tN2kAlert"
  /\ \E t \in uint8_t : SetOccurenceThreshold(t)

PersistingSample ==
  \E v \in Samples :
    /\ ThresholdSwitch(_ThresholdMethod, v, _ThresholdLevel) = "SetAlertExceeded"
    /\ TestAlertThreshold(v)

PersistNext ==
  \/ ConfigureOccurenceThreshold
  \/ PersistingSample

\* loop() calls TestAlertThreshold on every pass
PersistSpec ==
  /\ OccurenceInit
  /\ [][PersistNext]_vars
  /\ WF_vars(PersistingSample)

\* ---------------------------------------------------------------------
\* A silenced alert whose condition persists: the alert compares with
\* "greater", the clock runs, TestAlertThreshold is called again and
\* again, and while the alert is Silenced every sample exceeds and no
\* response arrives.  The clock of the model is finite, so a response is
\* taken only while the deadline it arms can still be passed.
SilenceInit ==
  /\ tN2kAlert9
  /\ _AlertSystem = 0
  /\ _ThresholdMethod = N2kts_AlertThresholddMethodGreater
  /\ build = AlertBuild
  /\ codec = NoCodec

SampleWhileSilenced ==
  \E v \in Samples :
    /\ _AlertState = N2kts_AlertStateSilenced =>
         ThresholdSwitch(_ThresholdMethod, v, _ThresholdLevel) = "SetAlertExceeded"
    /\ TestAlertThreshold(v)

ResponseUnlessSilenced ==
  /\ _AlertState # N2kts_AlertStateSilenced
  /\ FromNow(now, _TemporarySilenceDelay) < MaxTicks * TickMs
  /\ \E m \in OwnResponses : ParseAlertResponse(m)

SilenceNext ==
  \/ DoSetTemporarySilenceTime
  \/ SampleWhileSilenced
  \/ ResponseUnlessSilenced
  \/ Tick

\* loop() calls TestAlertThreshold on every pass and millis() advances
SilenceSpec ==
  /\ SilenceInit
  /\ [][SilenceNext]_vars
  /\ WF_vars(Tick)
  /\ WF_vars(SampleWhileSilenced)

\* ---------------------------------------------------------------------
\* Responses that differ in the fields ParseAlertResponse decodes and does
\* not use: alert type, category, alert id, source network id, data source
\* instance and index, occurrence and acknowledge network id.
UnusedFields ==
  { <<N2kts_AlertTypeWarning, N2kts_AlertCategoryTechnical, 1, 1, 0, 0, 1, 1>>,
    <<N2kts_AlertTypeAlarm, N2kts_AlertCategoryTechnical, 1, 1, 0, 0, 1, 1>>,
    <<N2kts_AlertTypeWarning, N2kts_AlertCategoryNavigational, 1, 1, 0, 0, 1, 1>>,
    <<N2kts_AlertTypeWarning, N2kts_AlertCategoryTechnical, 513, 1, 0, 0, 1, 1>>,
    <<N2kts_AlertTypeWarning, N2kts_AlertCategoryTechnical, 1, 258, 0, 0, 1, 1>>,
    <<N2kts_AlertTypeWarning, N2kts_AlertCategoryTechnical, 1, 1, 3, 0, 1, 1>>,
    <<N2kts_AlertTypeWarning, N2kts_AlertCategoryTechnical, 1, 1, 0, 4, 1, 1>>,
    <<N2kts_AlertTypeWarning, N2kts_AlertCategoryTechnical, 1, 1, 0, 0, 200, 1>>,
    <<N2kts_AlertTypeWarning, N2kts_AlertCategoryTechnical, 1, 1, 0, 0, 1, 259>> }

VariedResponses ==
  { SetN2kPGN126984(f[1], f[2], to[1], to[2], f[3], f[4], f[5], f[6], f[7], f[8], c) :
      f \in UnusedFields, to \in {<<0, 0>>, <<0, 1>>}, c \in tN2kAlertResponseCommand }

VariedNext ==
  \/ DoTestAlertThreshold
  \/ \E m \in VariedResponses \cup OtherMessages : ParseAlertResponse(m)
  \/ Tick

VariedSpec == SilenceInit /\ [][VariedNext]_vars


----------------------------------------------------------------------------
(* The encoders and decoders called on their own: an encoder builds a      *)
(* message from its arguments, then a decoder reads it.                    *)

\* the alert ids: the least, the greatest and the two around the sign bit
\* of a 16-bit integer
AlertIDs == {0, 1, 32767, 32768, 65535}
\* values of an unsigned char argument
Bytes == {0, 255}
\* values of a uint64_t network id, as far as 32-bit integers reach
NetworkIDs == {0, 2147483647}
\* the texts: the first letters of the alphabet, up to MaxText of them
MaxText == 8
Texts == { [k \in 1..n |-> 64 + k] : n \in 0..MaxText }

\* the arguments the variations start from: the unsigned char and uint64_t
\* arguments all differ
Alert ==
  [AlertType |-> N2kts_AlertTypeWarning, AlertCategory |-> N2kts_AlertCategoryTechnical,
   AlertSystem |-> 10, AlertSubSystem |-> 11, AlertID |-> 1, SourceNetworkID |-> 16,
   DataSourceInstance |-> 12, DataSourceIndex |-> 13, AlertOccurence |-> 14,
   AcknowledgeNetworkID |-> 17, TriggerCondition |-> N2kts_AlertTriggerAuto,
   ThresholdStatus |-> N2kts_AlertThresholdStatusExceeded, AlertPriority |-> 15,
   AlertState |-> N2kts_AlertStateActive,
   TemporarySilenceStatus |-> N2kts_AlertNo, AcknowledgeStatus |-> N2kts_AlertNo,
   EscalationStatus |-> N2kts_AlertNo, TemporarySilenceSupport |-> N2kts_AlertNo,
   AcknowledgeSupport |-> N2kts_AlertNo, EscalationSupport |-> N2kts_AlertNo]

\* the arguments common to the three encoders, varied from f
Common(f) ==
  {f}
  \cup { [f EXCEPT !.AlertType = t, !.AlertCategory = c] :
           t \in tN2kAlertType, c \in tN2kAlertCategory }
  \cup { [f EXCEPT !.AlertSystem = b] : b \in Bytes }
  \cup { [f EXCEPT !.AlertSubSystem = b] : b \in Bytes }
  \cup { [f EXCEPT !.AlertID = id] : id \in AlertIDs }
  \cup { [f EXCEPT !.SourceNetworkID = n] : n \in NetworkIDs }
  \cup { [f EXCEPT !.DataSourceInstance = b] : b \in Bytes }
  \cup { [f EXCEPT !.DataSourceIndex = b] : b \in Bytes }
  \cup { [f EXCEPT !.AlertOccurence = b] : b \in Bytes }

\* the arguments of SetN2kPGN126983
Alerts ==
  Common(Alert)
  \cup { [Alert EXCEPT !.AcknowledgeNetworkID = n] : n \in NetworkIDs }
  \cup { [Alert EXCEPT !.TriggerCondition = t, !.ThresholdStatus = x] :
           t \in tN2kAlertTriggerCondition, x \in tN2kAlertThresholdStatus }
  \cup { [Alert EXCEPT !.AlertPriority = b] : b \in Bytes }
  \cup { [Alert EXCEPT !.AlertState = x] : x \in tN2kAlertState }
  \cup { [Alert EXCEPT !.TemporarySilenceStatus = y[1], !.AcknowledgeStatus = y[2],
                       !.EscalationStatus = y[3], !.TemporarySilenceSupport = y[4],
                       !.AcknowledgeSupport = y[5], !.EscalationSupport = y[6]] :
           y \in [1..6 -> tN2kAlertYesNo] }

\* the arguments of SetN2kPGN126984
AlertResponse ==
  [AlertType |-> N2kts_AlertTypeWarning, AlertCategory |-> N2kts_AlertCategoryTechnical,
   AlertSystem |-> 10, AlertSubSystem |-> 11, AlertID |-> 1, SourceNetworkID |-> 16,
   DataSourceInstance |-> 12, DataSourceIndex |-> 13, AlertOccurence |-> 14,
   AcknowledgeNetworkID |-> 17, ResponseCommand |-> N2kts_AlertResponseAcknowledge]

AlertResponses ==
  UNION { Common([AlertResponse EXCEPT !.ResponseCommand = c]) : c \in tN2kAlertResponseCommand }
  \cup { [AlertResponse EXCEPT !.AcknowledgeNetworkID = n] : n \in NetworkIDs }

\* the arguments of SetN2kPGN126985
AlertText ==
  [AlertType |-> N2kts_AlertTypeWarning, AlertCategory |-> N2kts_AlertCategoryTechnical,
   AlertSystem |-> 10, AlertSubSystem |-> 11, AlertID |-> 1, SourceNetworkID |-> 16,
   DataSourceInstance |-> 12, DataSourceIndex |-> 13, AlertOccurence |-> 14,
   AlertLanguage |-> 9, AlertTextDescription |-> <<65>>,
   AlertLocationTextDescription |-> <<66, 67>>]

AlertTexts ==
  Common(AlertText)
  \cup { [AlertText EXCEPT !.AlertLanguage = l] : l \in tN2kAlertLanguage }
  \cup { [AlertText EXCEPT !.AlertTextDescription = d, !.AlertLocationTextDescription = l] :
           d \in Texts, l \in Texts }

\* the caller's output variables before a decoder is called: the two text
\* buffers are empty, the other variables are all 0
Outputs(f) ==
  [x \in DOMAIN f |->
     IF x \in {"AlertTextDescription", "AlertLocationTextDescription"} THEN <<>> ELSE 0]

\* an encoder has been called with the arguments f and has built msg
Built(f, msg) ==
  /\ codec' = [pc |-> "built", by |-> "none", sent |-> f, msg |-> msg, ret |-> FALSE,
               out |-> Outputs(f)]
  /\ UNCHANGED <<alert, now, call, build>>

CallSetN2kPGN126983 ==
  /\ codec.pc = "idle"
  /\ \E f \in Alerts :
    Built(f, SetN2kPGN126983(f.AlertType, f.AlertCategory, f.AlertSystem, f.AlertSubSystem,
               f.AlertID, f.SourceNetworkID, f.DataSourceInstance, f.DataSourceIndex,
               f.AlertOccurence, f.AcknowledgeNetworkID, f.TriggerCondition, f.ThresholdStatus,
               f.AlertPriority, f.AlertState, f.TemporarySilenceStatus, f.AcknowledgeStatus,
               f.EscalationStatus, f.TemporarySilenceSupport, f.AcknowledgeSupport,
               f.EscalationSupport))

CallSetN2kPGN126984 ==
  /\ codec.pc = "idle"
  /\ \E f \in AlertResponses :
    Built(f, SetN2kPGN126984(f.AlertType, f.AlertCategory, f.AlertSystem, f.AlertSubSystem,
               f.AlertID, f.SourceNetworkID, f.DataSourceInstance, f.DataSourceIndex,
               f.AlertOccurence, f.AcknowledgeNetworkID, f.ResponseCommand))

CallSetN2kPGN126985 ==
  /\ codec.pc = "idle"
  /\ \E f \in AlertTexts :
    Built(f, SetN2kPGN126985(f.AlertType, f.AlertCategory, f.AlertSystem, f.AlertSubSystem,
               f.AlertID, f.SourceNetworkID, f.DataSourceInstance, f.DataSourceIndex,
               f.AlertOccurence, f.AlertLanguage, f.AlertTextDescription,
               f.AlertLocationTextDescription))

\* the decoder `by' has been called with the message built and returned p
Parses(by, p) ==
  /\ codec' = [codec EXCEPT !.pc = "parsed", !.by = by, !.ret = p.ret, !.out = p.out]
  /\ UNCHANGED <<alert, now, call, build>>

CallParseN2kPGN126983 ==
  /\ codec.pc = "built"
  /\ codec.msg.PGN = PGN126983
  /\ Parses("ParseN2kPGN126983", ParseN2kPGN126983(codec.msg, codec.out, build))

CallParseN2kPGN126984 ==
  /\ codec.pc = "built"
  /\ codec.msg.PGN = PGN126984
  /\ Parses("ParseN2kPGN126984", ParseN2kPGN126984(codec.msg, codec.out, build))

CallParseN2kPGN126985 ==
  /\ codec.pc = "built"
  /\ codec.msg.PGN = PGN126985
  /\ Parses("ParseN2kPGN126985", ParseN2kPGN126985(codec.msg, codec.out, build))

\* one alert object, on any of the builds
CodecInit ==
  /\ Construct9({<<N2kts_AlertNo, N2kts_AlertNo, N2kts_AlertNo>>}, {1})
  /\ _AlertSystem = 0
  /\ _ThresholdMethod = N2kts_AlertThresholdMethodEqual
  /\ build \in Builds
  /\ codec = NoCodec

CodecNext ==
  \/ CallSetN2kPGN126983
  \/ CallSetN2kPGN126984
  \/ CallSetN2kPGN126985
  \/ CallParseN2kPGN126983
  \/ CallParseN2kPGN126984
  \/ CallParseN2kPGN126985

CodecSpec == CodecInit /\ [][CodecNext]_vars

----------------------------------------------------------------------------
(* Messages from the bus.  A message received from another device was not  *)
(* necessarily built by the encoders above: its PGN may be any, its        *)
(* payload may be cut short, and the bytes that hold bit fields and        *)
(* enumerations may hold any value.                                        *)

\* the three decoders
Decoders == {"ParseN2kPGN126983", "ParseN2kPGN126984", "ParseN2kPGN126985"}

\* the PGN each decoder tests for
OwnPGN(d) ==
  CASE d = "ParseN2kPGN126983" -> PGN126983
    [] d = "ParseN2kPGN126984" -> PGN126984
    [] d = "ParseN2kPGN126985" -> PGN126985

\* the PGNs of the messages received: the three of the codec and the PGN
\* of a message that was never set
PGNs == {PGN126983, PGN126984, PGN126985, EmptyMsg.PGN}

\* the messages the encoders build from the arguments Alert, AlertResponse
\* and AlertText
BuiltMessages ==
  { SetN2kPGN126983(Alert.AlertType, Alert.AlertCategory, Alert.AlertSystem,
      Alert.AlertSubSystem, Alert.AlertID, Alert.SourceNetworkID, Alert.DataSourceInstance,
      Alert.DataSourceIndex, Alert.AlertOccurence, Alert.AcknowledgeNetworkID,
      Alert.TriggerCondition, Alert.ThresholdStatus, Alert.AlertPriority, Alert.AlertState,
      Alert.TemporarySilenceStatus, Alert.AcknowledgeStatus, Alert.EscalationStatus,
      Alert.TemporarySilenceSupport, Alert.AcknowledgeSupport, Alert.EscalationSupport),
    SetN2kPGN126984(AlertResponse.AlertType, AlertResponse.AlertCategory,
      AlertResponse.AlertSystem, AlertResponse.AlertSubSystem, AlertResponse.AlertID,
      AlertResponse.SourceNetworkID, AlertResponse.DataSourceInstance,
      AlertResponse.DataSourceIndex, AlertResponse.AlertOccurence,
      AlertResponse.AcknowledgeNetworkID, AlertResponse.ResponseCommand),
    SetN2kPGN126985(AlertText.AlertType, AlertText.AlertCategory, AlertText.AlertSystem,
      AlertText.AlertSubSystem, AlertText.AlertID, AlertText.SourceNetworkID,
      AlertText.DataSourceInstance, AlertText.DataSourceIndex, AlertText.AlertOccurence,
      AlertText.AlertLanguage, AlertText.AlertTextDescription,
      AlertText.AlertLocationTextDescription) }

\* the places of the bytes of a payload that hold bit fields, enumerations
\* or the head of a text: byte 0 (type and category) in all three; the
\* status byte, the trigger and threshold byte and the state byte of PGN
\* 126983; the command byte of PGN 126984; the language byte and the length
\* and type bytes of the description of PGN 126985
FieldBytes(pgn) ==
  CASE pgn = PGN126983 -> {1, 17, 26, 28}
    [] pgn = PGN126984 -> {1, 25}
    [] pgn = PGN126985 -> {1, 17, 18, 19}

\* the payloads received in place of the payload Data of a message of PGN
\* pgn: Data itself, Data cut short, and Data with any value in one of the
\* bytes FieldBytes
Payloads(pgn, Data) ==
  { SubSeq(Data, 1, n) : n \in 0..Len(Data) }
  \cup { [Data EXCEPT ![k] = b] : k \in FieldBytes(pgn), b \in uint8_t }

\* The eight bytes of a network id at the cursor Index of the payload Data
\* give a number of at most 31 bits, which GetUInt64 computes as an integer
\* here, or lie past the end of the data.
Holds(Data, Index) ==
  \/ Index + 8 > Len(Data)
  \/ Data[Index + 4] < 128 /\ \A k \in 5..8 : Data[Index + k] = 0

\* the messages received: every payload under its own PGN, and the built
\* payloads under every PGN under which the network ids read from them
\* (at the cursors 5, 16 and 17) are such numbers
WireMessages ==
  UNION { { [m EXCEPT !.Data = d] : d \in Payloads(m.PGN, m.Data) }
          \cup { [m EXCEPT !.PGN = pgn] :
                   pgn \in { x \in PGNs : \/ x \in {m.PGN, EmptyMsg.PGN}
                                          \/ \A i \in {5, 16, 17} : Holds(m.Data, i) } }
          : m \in BuiltMessages }

\* the output variables of the caller of decoder d before the call
OutputsOf(d) ==
  CASE d = "ParseN2kPGN126983" -> Outputs(Alert)
    [] d = "ParseN2kPGN126984" -> Outputs(AlertResponse)
    [] d = "ParseN2kPGN126985" -> Outputs(AlertText)

\* decoder d called with the message N2kMsg
Decode(d, N2kMsg, out, model) ==
  CASE d = "ParseN2kPGN126983" -> ParseN2kPGN126983(N2kMsg, out, model)
    [] d = "ParseN2kPGN126984" -> ParseN2kPGN126984(N2kMsg, out, model)
    [] d = "ParseN2kPGN126985" -> ParseN2kPGN126985(N2kMsg, out, model)

\* a message arrives and its handler is about to call decoder d
Receive ==
  /\ codec.pc = "idle"
  /\ \E m \in WireMessages, d \in Decoders :
       codec' = [pc |-> "received", by |-> d, sent |-> NoCodec.sent, msg |-> m,
                 ret |-> FALSE, out |-> OutputsOf(d)]
  /\ UNCHANGED <<alert, now, call, build>>

\* the handler calls its decoder with the message received
Handle ==
  /\ codec.pc = "received"
  /\ codec.by \in Decoders
  /\ Parses(codec.by, Decode(codec.by, codec.msg, codec.out, build))

WireNext ==
  \/ Receive
  \/ Handle

WireSpec == CodecInit /\ [][CodecNext \/ WireNext]_vars

----------------------------------------------------------------------------
(* The alias ParseN2kAlertResponse beside the decoder it stands for.       *)

\* a message arrives and its handler is about to call the decoder of PGN
\* 126984, directly or by its alias
ReceiveResponse ==
  /\ codec.pc = "idle"
  /\ \E m \in WireMessages, d \in {"ParseN2kPGN126984", "ParseN2kAlertResponse"} :
       codec' = [pc |-> "received", by |-> d, sent |-> NoCodec.sent, msg |-> m,
                 ret |-> FALSE, out |-> Outputs(AlertResponse)]
  /\ UNCHANGED <<alert, now, call, build>>

\* the handler calls the alias with the message received
HandleParseN2kAlertResponse ==
  /\ codec.pc = "received"
  /\ codec.by = "ParseN2kAlertResponse"
  /\ \E result \in Indeterminate :
       Parses("ParseN2kAlertResponse", ParseN2kAlertResponse(codec.msg, codec.out, result))

AliasInit == CodecInit /\ build = AlertBuild

AliasNext ==
  \/ ReceiveResponse
  \/ Handle
  \/ HandleParseN2kAlertResponse

AliasSpec == AliasInit /\ [][AliasNext]_vars

----------------------------------------------------------------------------
(* What the properties below speak of.                                     *)

\* the step is a call TestAlertThreshold(v)
Tested(v) == call'.op = "TestAlertThreshold" /\ call'.arg = <<v>>

\* the step is a call ParseAlertResponse
Parsed == call'.op = "ParseAlertResponse"

\* the threshold method is one of the three methods
MethodSet == _ThresholdMethod \in t2kNAlertThresholdMethod

\* sample v satisfies the comparison of the configured method
Exceeding(v) ==
  \/ _ThresholdMethod = N2kts_AlertThresholddMethodGreater /\ v > _ThresholdLevel
  \/ _ThresholdMethod = N2kts_AlertThresholdMethodLower /\ v < _ThresholdLevel
  \/ _ThresholdMethod = N2kts_AlertThresholdMethodEqual /\ v = _ThresholdLevel

\* the message of the step is addressed to this alert
Addressed == call'.msg.Data[2] = _AlertSystem /\ call'.msg.Data[3] = _AlertSubSystem

\* the response command the message of the step carries
Command == call'.msg.Data[25] % 4

----------------------------------------------------------------------------
(* C1: for each of the three methods and every sample v, the call          *)
(* TestAlertThreshold(v) performs the Exceed transition exactly when the   *)
(* comparison holds and the Reset transition otherwise, one of the two per *)
(* call.  Exceed leaves an occurrence counted or a status other than       *)
(* Normal; Reset leaves neither.                                           *)
C1_ExceedIffComparison ==
  [][\A v \in Samples :
       (Tested(v) /\ MethodSet) =>
         /\ call'.did = "SetAlertExceeded" <=> Exceeding(v)
         /\ call'.did = "ResetAlert" <=> ~Exceeding(v)
         /\ Exceeding(v) <=>
              ~(_ThresholdStatus' = N2kts_AlertThresholdStatusNormal /\ _Occurence' = 0)]_vars

C1_Witness ==
  /\ call.op = "TestAlertThreshold"
  /\ call.did = "SetAlertExceeded"
  /\ _ThresholdMethod = N2kts_AlertThresholdMethodLower
  /\ call.arg[1] < _ThresholdLevel
  /\ _Occurence > 0

FindsExceeded ==
  \/ _ThresholdStatus = N2kts_AlertThresholdStatusExceeded
  \/ /\ _ThresholdStatus = N2kts_AlertThresholdStatusNormal
     /\ (IF _Occurence > 250 THEN 0 ELSE _Occurence) + 1 >= _OccurenceThreshold

(* C4: an exceeding sample that finds the status Exceeded, or makes it so, *)
(* ends Acknowledged (state and status) when acknowledge is set, silence   *)
(* set or not; Silenced when only silence is set; Active when neither is.  *)
C4_AcknowledgeDominance ==
  [][\A v \in Samples :
       (Tested(v) /\ Exceeding(v) /\ FindsExceeded) =>
         /\ (_TemporarySilenceStatus = N2kts_AlertYes /\ _AcknowledgeStatus = N2kts_AlertYes) =>
              /\ _AlertState' = N2kts_AlertStateAcknowledged
              /\ _ThresholdStatus' = N2kts_AlertThresholdStatusAcknowledged
         /\ (_TemporarySilenceStatus = N2kts_AlertYes /\ _AcknowledgeStatus = N2kts_AlertNo) =>
              /\ _AlertState' = N2kts_AlertStateSilenced
              /\ _ThresholdStatus' = N2kts_AlertThresholdStatusExceeded
         /\ (_TemporarySilenceStatus = N2kts_AlertNo /\ _AcknowledgeStatus = N2kts_AlertNo) =>
              /\ _AlertState' = N2kts_AlertStateActive
              /\ _ThresholdStatus' = N2kts_AlertThresholdStatusExceeded]_vars

C4_Witness ==
  /\ call.op = "TestAlertThreshold"
  /\ call.did = "SetAlertExceeded"
  /\ call.from = N2kts_AlertStateSilenced
  /\ _TemporarySilenceStatus = N2kts_AlertYes
  /\ _AcknowledgeStatus = N2kts_AlertYes
  /\ _AlertState = N2kts_AlertStateAcknowledged

(* C5: state Acknowledged implies threshold status Acknowledged.           *)
C5_AcknowledgedState ==
  _AlertState = N2kts_AlertStateAcknowledged =>
    _ThresholdStatus = N2kts_AlertThresholdStatusAcknowledged

C5_Witness ==
  /\ _AlertState = N2kts_AlertStateAcknowledged
  /\ call.op = "ParseAlertResponse"

(* C6: a TestAlertThreshold call whose sample does not satisfy the         *)
(* comparison ends with status Normal, state Normal, acknowledge No and    *)
(* occurrence 0, whatever state it found.                                  *)
C6_Reset ==
  [][\A v \in Samples :
       (Tested(v) /\ MethodSet /\ ~Exceeding(v)) =>
         /\ _ThresholdStatus' = N2kts_AlertThresholdStatusNormal
         /\ _AlertState' = N2kts_AlertStateNormal
         /\ _AcknowledgeStatus' = N2kts_AlertNo
         /\ _Occurence' = 0
         /\ call'.status = N2kts_AlertThresholdStatusNormal]_vars

C6_Witness ==
  /\ call.op = "TestAlertThreshold"
  /\ call.did = "ResetAlert"
  /\ call.from = N2kts_AlertStateAcknowledged
  /\ _AlertState = N2kts_AlertStateNormal

(* C7: a TestAlertThreshold call with a sample that does not satisfy the   *)
(* comparison, made while the silence timer is not yet due, leaves the     *)
(* silence status as it was; the call never moves the timer.               *)
C7_ResetKeepsSilence ==
  [][\A v \in Samples :
       (Tested(v) /\ MethodSet /\ ~Exceeding(v)) =>
         /\ _TemporarySilenceTimer' = _TemporarySilenceTimer
         /\ now <= _TemporarySilenceTimer => _TemporarySilenceStatus' = _TemporarySilenceStatus]_vars

C7_Witness ==
  /\ call.op = "TestAlertThreshold"
  /\ call.did = "ResetAlert"
  /\ call.from = N2kts_AlertStateSilenced
  /\ _TemporarySilenceStatus = N2kts_AlertYes

(* C8: ParseAlertResponse given a message of another PGN returns false and *)
(* leaves every member of the alert unchanged.                             *)
C8_OtherPGNRejected ==
  [][(Parsed /\ call'.msg.PGN # PGN126984) =>
       (call'.ret = FALSE /\ UNCHANGED alert)]_vars

(* C9: ParseAlertResponse given an Alert Response addressed to another     *)
(* system or subsystem returns true and leaves every member of the alert   *)
(* unchanged, for every command.                                           *)
C9_OtherAddresseeIgnored ==
  [][(Parsed /\ call'.msg.PGN = PGN126984 /\ ~Addressed) =>
       (call'.ret = TRUE /\ UNCHANGED alert)]_vars

(* C10: ParseAlertResponse given an Alert Response addressed to this alert *)
(* with command Acknowledge returns true, sets the acknowledge status and  *)
(* changes no other member.                                                *)
C10_AcknowledgeApplied ==
  [][(Parsed /\ call'.msg.PGN = PGN126984 /\ Addressed
        /\ Command = N2kts_AlertResponseAcknowledge) =>
       /\ call'.ret = TRUE
       /\ _AcknowledgeStatus' = N2kts_AlertYes
       /\ UNCHANGED <<identity, system, threshold, _OccurenceThreshold, _TemporarySilenceDelay,
                      _AlertState, _ThresholdStatus, _Occurence, _TemporarySilenceStatus,
                      _EscalationStatus, _TemporarySilenceTimer>>]_vars

\* the step is a call ParseAlertResponse with an Alert Response addressed to
\* this alert that carries command c
Responded(c) ==
  Parsed /\ call'.msg.PGN = PGN126984 /\ Addressed /\ Command = c

(* C11: a call ParseAlertResponse at time t with a TemporarySilence         *)
(* response addressed to this alert leaves the silence status Yes and the  *)
(* timer deadline at t + delay, a first response and a later one alike;    *)
(* and a TestAlertThreshold call at a time not later than the deadline     *)
(* leaves a silence status Yes as it is.                                   *)
C11_SilenceArmed ==
  [][/\ Responded(N2kts_AlertResponseTemporarySilence) =>
          /\ _TemporarySilenceStatus' = N2kts_AlertYes
          /\ _TemporarySilenceTimer' = now + _TemporarySilenceDelay
     /\ (/\ call'.op = "TestAlertThreshold"
         /\ _TemporarySilenceStatus = N2kts_AlertYes
         /\ now <= _TemporarySilenceTimer) =>
          _TemporarySilenceStatus' = N2kts_AlertYes]_vars

(* C12: a TestAlertThreshold call made after the deadline of the silence    *)
(* timer has passed ends with the silence status No, whatever the sample   *)
(* and whichever transition the call performed; the deadline is moved only *)
(* by ParseAlertResponse, to the time of the call plus the delay; and no   *)
(* operation other than TestAlertThreshold changes the silence status from *)
(* Yes to No.                                                              *)
C12_SilenceExpiry ==
  [][/\ (call'.op = "TestAlertThreshold" /\ now > _TemporarySilenceTimer) =>
          _TemporarySilenceStatus' = N2kts_AlertNo
     /\ _TemporarySilenceTimer' # _TemporarySilenceTimer =>
          Parsed /\ _TemporarySilenceTimer' = now + _TemporarySilenceDelay
     /\ (/\ _TemporarySilenceStatus = N2kts_AlertYes
         /\ _TemporarySilenceStatus' = N2kts_AlertNo) =>
          call'.op = "TestAlertThreshold"]_vars

C12_Witness ==
  /\ call.op = "TestAlertThreshold"
  /\ call.did = "SetAlertExceeded"
  /\ call.from = N2kts_AlertStateSilenced
  /\ now > _TemporarySilenceTimer
  /\ _TemporarySilenceStatus = N2kts_AlertNo

(* C13: ParseAlertResponse given an Alert Response addressed to this alert *)
(* with command TestCommandOff or TestCommandOn returns true and leaves    *)
(* every member of the alert unchanged.                                    *)
C13_TestCommandsIgnored ==
  [][(\/ Responded(N2kts_AlertResponseTestCommandOff)
      \/ Responded(N2kts_AlertResponseTestCommandOn)) =>
       (call'.ret = TRUE /\ UNCHANGED alert)]_vars

(* C14: after a call SetOccurenceThreshold(t), t in 0..255, the occurrence  *)
(* threshold lies in 1..250: it is t when t is in 1..250 and 1 when t is 0  *)
(* or above 250.                                                           *)
C14_SetterClamps ==
  [][\A t \in uint8_t :
       (call'.op = "SetOccurenceThreshold" /\ call'.arg = <<t>>) =>
         /\ _OccurenceThreshold' \in 1..250
         /\ _OccurenceThreshold' = IF t \in 1..250 THEN t ELSE 1]_vars

(* C15: immediately after construction by either constructor the          *)
(* occurrence threshold lies in 1..250; the constructor that takes an      *)
(* occurrence threshold stores the argument when it is in 1..250 and 1     *)
(* when it is 0 or above 250.                                              *)
C15_ConstructedThreshold ==
  call.op = "tN2kAlert" =>
    /\ _OccurenceThreshold \in 1..250
    /\ call.arg # <<>> =>
         _OccurenceThreshold = IF call.arg[1] \in 1..250 THEN call.arg[1] ELSE 1

(* C16: immediately after construction the threshold status and the state *)
(* are Normal, the occurrence is 0 and the silence, acknowledge and        *)
(* escalation status are No, whatever the constructor arguments.           *)
C16_ConstructedNormal ==
  call.op = "tN2kAlert" =>
    /\ _ThresholdStatus = N2kts_AlertThresholdStatusNormal
    /\ _AlertState = N2kts_AlertStateNormal
    /\ _Occurence = 0
    /\ _TemporarySilenceStatus = N2kts_AlertNo
    /\ _AcknowledgeStatus = N2kts_AlertNo
    /\ _EscalationStatus = N2kts_AlertNo

C16_Witness ==
  /\ call.op = "tN2kAlert"
  /\ call.arg = <<255>>
  /\ _TemporarySilenceSupport = N2kts_AlertYes
  /\ _AcknowledgeSupport = N2kts_AlertYes
  /\ _EscalationSupport = N2kts_AlertYes
  /\ _AlertState = N2kts_AlertStateNormal

\* the decoder `by' has read the message an encoder built
Decoded(by) == codec.pc = "parsed" /\ codec.by = by

\* the decoder returned, for each of the arguments `same', what the encoder
\* was given
RoundTrip(same) == \A x \in same : codec.out[x] = codec.sent[x]

(* C17: ParseN2kPGN126983 applied to the message SetN2kPGN126983 built     *)
(* returns true and yields the encoded type, category, system, subsystem,  *)
(* network ids, data-source instance and index, occurrence, trigger        *)
(* condition, threshold status, priority, state and six flags.             *)
C17_AlertRoundTrip ==
  Decoded("ParseN2kPGN126983") =>
    /\ codec.ret = TRUE
    /\ RoundTrip(DOMAIN Alert \ {"AlertID"})

C17_Witness ==
  /\ Decoded("ParseN2kPGN126983")
  /\ codec.sent.TemporarySilenceSupport = N2kts_AlertYes
  /\ codec.sent.AcknowledgeSupport = N2kts_AlertNo
  /\ codec.sent.EscalationStatus = N2kts_AlertYes
  /\ codec.out.EscalationStatus = N2kts_AlertYes

(* C18: ParseN2kPGN126984 applied to the message SetN2kPGN126984 built     *)
(* returns true and yields the encoded command, type, category, system,    *)
(* subsystem, network ids, data-source instance and index and occurrence,  *)
(* for each of the four commands.                                          *)
C18_ResponseRoundTrip ==
  Decoded("ParseN2kPGN126984") =>
    /\ codec.ret = TRUE
    /\ RoundTrip(DOMAIN AlertResponse \ {"AlertID"})

C18_Witness ==
  /\ Decoded("ParseN2kPGN126984")
  /\ codec.sent.ResponseCommand = N2kts_AlertResponseTestCommandOn
  /\ codec.out.ResponseCommand = N2kts_AlertResponseTestCommandOn
  /\ codec.sent.AlertType = N2kts_AlertTypeCaution

(* C19: ParseN2kPGN126985 applied to the message SetN2kPGN126985 built     *)
(* from a description and a location of at most 50 bytes each returns true *)
(* and yields the same language, description and location.                 *)
C19_TextRoundTrip ==
  Decoded("ParseN2kPGN126985") =>
    /\ codec.ret = TRUE
    /\ RoundTrip({"AlertLanguage", "AlertTextDescription", "AlertLocationTextDescription"})

(* C20: each of the three decoders returns the alert id its encoder wrote, *)
(* for every alert id 0..65535.                                            *)
C20_AlertIDRoundTrip ==
  codec.pc = "parsed" => codec.out.AlertID = codec.sent.AlertID

----------------------------------------------------------------------------
(* The layout of the bytes.                                                *)

\* an encoder has built a message
Encoded(pgn) == codec.pc = "built" /\ codec.msg.PGN = pgn

(* C21: each of the three encoders writes byte 0 as (category << 4) | type,*)
(* the type in the low nibble and the category in the high nibble; type    *)
(* Warning with category Technical gives 0x15.                             *)
C21_FirstByte ==
  \A pgn \in {PGN126983, PGN126984, PGN126985} :
    Encoded(pgn) =>
      /\ codec.msg.Data[1] = codec.sent.AlertCategory * 16 + codec.sent.AlertType
      /\ codec.msg.Data[1] % 16 = codec.sent.AlertType
      /\ codec.msg.Data[1] \div 16 = codec.sent.AlertCategory
      /\ (codec.sent.AlertType = N2kts_AlertTypeWarning
          /\ codec.sent.AlertCategory = N2kts_AlertCategoryTechnical)
           => codec.msg.Data[1] = 21

C21_Witness ==
  /\ Encoded(PGN126983)
  /\ codec.sent.AlertType = N2kts_AlertTypeCaution
  /\ codec.sent.AlertCategory = N2kts_AlertCategoryTechnical
  /\ codec.msg.Data[1] = 24

\* bit n of the byte v
Bit(v, n) == (v \div 2^n) % 2

(* C22: the status byte of PGN 126983 holds the temporary-silence status   *)
(* in bit 0, the acknowledge status in bit 1, the escalation status in bit *)
(* 2, the three supports in bits 3, 4 and 5 and has bits 6 and 7 set; the  *)
(* decoder takes the six flags from bits 0..5 of the status byte, whatever *)
(* bits 6 and 7 hold.                                                      *)
C22_StatusByte ==
  /\ Encoded(PGN126983) =>
       /\ Bit(codec.msg.Data[17], 0) = codec.sent.TemporarySilenceStatus
       /\ Bit(codec.msg.Data[17], 1) = codec.sent.AcknowledgeStatus
       /\ Bit(codec.msg.Data[17], 2) = codec.sent.EscalationStatus
       /\ Bit(codec.msg.Data[17], 3) = codec.sent.TemporarySilenceSupport
       /\ Bit(codec.msg.Data[17], 4) = codec.sent.AcknowledgeSupport
       /\ Bit(codec.msg.Data[17], 5) = codec.sent.EscalationSupport
       /\ Bit(codec.msg.Data[17], 6) = 1
       /\ Bit(codec.msg.Data[17], 7) = 1
  /\ (Decoded("ParseN2kPGN126983") /\ codec.ret /\ Len(codec.msg.Data) >= 17) =>
       /\ codec.out.TemporarySilenceStatus = Bit(codec.msg.Data[17] % 64, 0)
       /\ codec.out.AcknowledgeStatus = Bit(codec.msg.Data[17] % 64, 1)
       /\ codec.out.EscalationStatus = Bit(codec.msg.Data[17] % 64, 2)
       /\ codec.out.TemporarySilenceSupport = Bit(codec.msg.Data[17] % 64, 3)
       /\ codec.out.AcknowledgeSupport = Bit(codec.msg.Data[17] % 64, 4)
       /\ codec.out.EscalationSupport = Bit(codec.msg.Data[17] % 64, 5)

\* a status byte with bit 6 clear has been decoded
C22_Witness ==
  /\ Decoded("ParseN2kPGN126983")
  /\ codec.ret
  /\ Len(codec.msg.Data) >= 17
  /\ codec.msg.Data[17] = 128 + 32 + 2
  /\ codec.out.EscalationSupport = N2kts_AlertYes
  /\ codec.out.AcknowledgeSupport = N2kts_AlertNo
  /\ codec.out.AcknowledgeStatus = N2kts_AlertYes

(* C23: the encoder of PGN 126984 writes the response byte 0xFC | c for    *)
(* each command c: the top six bits set and the command in the low two;    *)
(* the decoder maps every byte b in 0..255 to the command b & 0x03.        *)
C23_ResponseByte ==
  /\ Encoded(PGN126984) =>
       /\ codec.msg.Data[25] = 252 + codec.sent.ResponseCommand
       /\ codec.msg.Data[25] \div 4 = 63
       /\ codec.msg.Data[25] % 4 = codec.sent.ResponseCommand
  /\ (Decoded("ParseN2kPGN126984") /\ codec.ret /\ Len(codec.msg.Data) >= 25) =>
       codec.out.ResponseCommand = codec.msg.Data[25] % 4

\* a response byte with the top six bits not all set has been decoded
C23_Witness ==
  /\ Decoded("ParseN2kPGN126984")
  /\ codec.ret
  /\ Len(codec.msg.Data) >= 25
  /\ codec.msg.Data[25] = 6
  /\ codec.out.ResponseCommand = N2kts_AlertResponseTestCommandOff

(* C24: a decoder returns false and writes none of its output parameters   *)
(* when the PGN of the message is not its own, and returns true for every  *)
(* message of its own PGN, whatever the payload; so at most one of the     *)
(* three decoders returns true for a message.                              *)
C24_OwnPGNOnly ==
  [][codec'.pc = "parsed" =>
       /\ IF codec.msg.PGN = OwnPGN(codec'.by)
          THEN codec'.ret = TRUE
          ELSE codec'.ret = FALSE /\ codec'.out = codec.out
       /\ Cardinality({ d \in Decoders :
                          Decode(d, codec.msg, OutputsOf(d), build).ret }) <= 1]_vars

\* the decoder of PGN 126985 has been given a message of PGN 126984
C24_Witness ==
  /\ Decoded("ParseN2kPGN126985")
  /\ codec.msg.PGN = PGN126984
  /\ Len(codec.msg.Data) = 25
  /\ codec.ret = FALSE
  /\ codec.out = OutputsOf("ParseN2kPGN126985")

(* C25: a wire value that is not a member of its enumeration does not make *)
(* the decoder fail: it returns true and the output is the number read     *)
(* from the wire, for the type and category nibbles, the trigger and       *)
(* threshold-status nibbles, the state byte and the language byte.         *)
C25_RawEnumeration ==
  /\ (codec.pc = "parsed" /\ codec.msg.PGN = OwnPGN(codec.by) /\ Len(codec.msg.Data) >= 1) =>
       /\ codec.ret = TRUE
       /\ codec.out.AlertType = codec.msg.Data[1] % 16
       /\ codec.out.AlertCategory = codec.msg.Data[1] \div 16
  /\ (Decoded("ParseN2kPGN126983") /\ codec.msg.PGN = PGN126983 /\ Len(codec.msg.Data) >= 28) =>
       /\ codec.ret = TRUE
       /\ codec.out.TriggerCondition = codec.msg.Data[26] % 16
       /\ codec.out.ThresholdStatus = codec.msg.Data[26] \div 16
       /\ codec.out.AlertState = codec.msg.Data[28]
  /\ (Decoded("ParseN2kPGN126985") /\ codec.msg.PGN = PGN126985 /\ Len(codec.msg.Data) >= 17) =>
       /\ codec.ret = TRUE
       /\ codec.out.AlertLanguage = codec.msg.Data[17]

\* a state byte that is no alert state has been decoded
C25_Witness ==
  /\ Decoded("ParseN2kPGN126983")
  /\ codec.msg.PGN = PGN126983
  /\ Len(codec.msg.Data) >= 28
  /\ codec.msg.Data[28] = 200
  /\ codec.msg.Data[28] \notin tN2kAlertState
  /\ codec.ret = TRUE
  /\ codec.out.AlertState = 200

(* C26: the alias ParseN2kAlertResponse returns, for every message, the    *)
(* boolean and the output values that a direct call of ParseN2kPGN126984   *)
(* with the same message returns.                                          *)
C26_AliasEquivalent ==
  Decoded("ParseN2kAlertResponse") =>
    /\ codec.ret = ParseN2kPGN126984(codec.msg, Outputs(AlertResponse), build).ret
    /\ codec.out = ParseN2kPGN126984(codec.msg, Outputs(AlertResponse), build).out

(* C27: every getter and query returns the current value of its member,    *)
(* or what it tells about it, and leaves every member of the alert as it   *)
(* was; isAcknowledged and isSilent return true exactly when the           *)
(* acknowledge status, respectively the temporary-silence status, is Yes,  *)
(* and do not set it.                                                      *)
C27_GettersPure ==
  [][/\ call'.op \in DOMAIN Getters =>
          call'.status = Getters[call'.op] /\ alert' = alert
     /\ call'.op \in DOMAIN Queries =>
          call'.ret = Queries[call'.op] /\ alert' = alert]_vars

\* isAcknowledged has answered no on an alert that is exceeded
C27_Witness ==
  /\ call.op = "isAcknowledged"
  /\ call.ret = FALSE
  /\ _AcknowledgeStatus = N2kts_AlertNo
  /\ _ThresholdStatus = N2kts_AlertThresholdStatusExceeded

\* the description and the location a call of SetAlertSystem was given
Described(arg) == SubSeq(arg, 5, 4 + arg[3])
Located(arg) == SubSeq(arg, 5 + arg[3], 4 + arg[3] + arg[4])

\* a text cut to its first String_Len bytes
Truncated(text) == IF Len(text) <= String_Len THEN text ELSE SubSeq(text, 1, String_Len)

(* C28: SetAlertSystem stores the description and the location as the text *)
(* it was given cut to at most 50 bytes: a text of 50 bytes or fewer is    *)
(* stored unchanged, a longer one as its first 50 bytes, and the text with *)
(* its terminating NUL lies inside the buffer of String_Len + 1 bytes.     *)
C28_TextsTruncated ==
  call.op = "SetAlertSystem" =>
    /\ _AlertDescription = Truncated(Described(call.arg))
    /\ _AlertLocation = Truncated(Located(call.arg))
    /\ Len(_AlertDescription) + 1 <= String_Len + 1
    /\ Len(_AlertLocation) + 1 <= String_Len + 1

(* C29: the occurrence counter stays within 0..251, for every value of the *)
(* occurrence threshold and every sequence of samples and responses, and   *)
(* so never wraps around; SetAlertExceeded entered with a counter above    *)
(* 250 first resets it to 0.                                               *)
C29_OccurenceBounded ==
  [][/\ _Occurence' \in 0..251
     /\ (call'.op = "TestAlertThreshold" /\ call'.did = "SetAlertExceeded" /\ _Occurence > 250) =>
          _Occurence' = IF _ThresholdStatus = N2kts_AlertThresholdStatusNormal THEN 1 ELSE 0]_vars

\* the counter of an exceeded alert has been reset from 251
C29_Witness ==
  /\ call.op = "TestAlertThreshold"
  /\ call.did = "SetAlertExceeded"
  /\ _OccurenceThreshold = 251
  /\ _ThresholdStatus = N2kts_AlertThresholdStatusExceeded
  /\ _Occurence = 0


C32_AcknowledgedFromReported ==
  [][(call'.op = "TestAlertThreshold" /\ _AlertState' = N2kts_AlertStateAcknowledged) =>
       _AlertState \in {N2kts_AlertStateActive, N2kts_AlertStateSilenced,
                        N2kts_AlertStateAcknowledged}]_vars

(* C33: a matching Acknowledge response applied to an alert in state       *)
(* Active or Silenced sets the acknowledge status and leaves the state;    *)
(* no step other than a TestAlertThreshold call changes the state, the     *)
(* threshold status or a set acknowledge status; and the next              *)
(* TestAlertThreshold call with an exceeding sample ends with state        *)
(* Acknowledged and threshold status Acknowledged.                         *)
C33_AcknowledgedAtNextSample ==
  [][/\ (/\ Responded(N2kts_AlertResponseAcknowledge)
         /\ call'.ret = TRUE
         /\ _AlertState \in {N2kts_AlertStateActive, N2kts_AlertStateSilenced}) =>
          /\ _ThresholdStatus = N2kts_AlertThresholdStatusExceeded
          /\ _AcknowledgeStatus' = N2kts_AlertYes
     /\ call'.op # "TestAlertThreshold" =>
          /\ _AlertState' = _AlertState
          /\ _ThresholdStatus' = _ThresholdStatus
          /\ _AcknowledgeStatus = N2kts_AlertYes => _AcknowledgeStatus' = N2kts_AlertYes
     /\ \A v \in Samples :
          (/\ Tested(v) /\ Exceeding(v)
           /\ _AlertState \in {N2kts_AlertStateActive, N2kts_AlertStateSilenced}
           /\ _AcknowledgeStatus = N2kts_AlertYes) =>
            /\ _AlertState' = N2kts_AlertStateAcknowledged
            /\ _ThresholdStatus' = N2kts_AlertThresholdStatusAcknowledged]_vars

\* an exceeding sample has found an Active alert acknowledged
C33_Witness ==
  /\ call.op = "TestAlertThreshold"
  /\ call.did = "SetAlertExceeded"
  /\ call.from = N2kts_AlertStateActive
  /\ _AlertState = N2kts_AlertStateAcknowledged
  /\ _ThresholdStatus = N2kts_AlertThresholdStatusAcknowledged

C35_AcknowledgeCleared ==
  [][/\ \A v \in Samples :
          (Tested(v) /\ MethodSet /\ ~Exceeding(v)) => _AcknowledgeStatus' = N2kts_AlertNo
     /\ (_AcknowledgeStatus = N2kts_AlertNo /\ _AcknowledgeStatus' = N2kts_AlertYes) =>
          Responded(N2kts_AlertResponseAcknowledge)
     /\ \A v \in Samples :
          (/\ Tested(v) /\ Exceeding(v)
           /\ _AlertState = N2kts_AlertStateNormal
           /\ _AcknowledgeStatus = N2kts_AlertNo) =>
            _AlertState' \in {N2kts_AlertStateNormal, N2kts_AlertStateActive,
                              N2kts_AlertStateSilenced}]_vars

(* C36: in every state between public operations, state Silenced implies   *)
(* temporary silence status Yes.                                           *)
C36_SilencedImpliesSilence ==
  _AlertState = N2kts_AlertStateSilenced => _TemporarySilenceStatus = N2kts_AlertYes

(* C37: in every reachable state the threshold status is Normal exactly    *)
(* when the state is Normal, and isAlert returns true exactly when the     *)
(* state is Active, Silenced or Acknowledged.                              *)
C37_NormalTogether ==
  /\ (_ThresholdStatus = N2kts_AlertThresholdStatusNormal) <=> (_AlertState = N2kts_AlertStateNormal)
  /\ _AlertState \in {N2kts_AlertStateNormal, N2kts_AlertStateActive,
                      N2kts_AlertStateSilenced, N2kts_AlertStateAcknowledged}
  /\ call.op = "isAlert" =>
       (call.ret <=> _AlertState \in {N2kts_AlertStateActive, N2kts_AlertStateSilenced,
                                      N2kts_AlertStateAcknowledged})

\* isAlert has answered yes on a silenced alert
C37_Witness ==
  /\ call.op = "isAlert"
  /\ call.ret = TRUE
  /\ _AlertState = N2kts_AlertStateSilenced
  /\ _ThresholdStatus = N2kts_AlertThresholdStatusExceeded

(* C38: for every value the occurrence threshold can hold after            *)
(* construction or after a call of its setter, an unbroken run of          *)
(* exceeding samples eventually makes the threshold status leave Normal.   *)
C38_PersistingConditionFires ==
  <>(_ThresholdStatus # N2kts_AlertThresholdStatusNormal)

(* C39: what ParseAlertResponse returns and does is determined by the      *)
(* state it finds and by the PGN, system, subsystem and command of the     *)
(* message: it returns true exactly for PGN 126984, a matching Acknowledge *)
(* sets the acknowledge status, a matching TemporarySilence sets the       *)
(* silence status and arms the timer, and nothing else changes, whatever   *)
(* the other fields of the message hold.                                   *)
C39_DependsOnKey ==
  [][Parsed =>
       LET mine == call'.msg.PGN = PGN126984 /\ Addressed
       IN  /\ call'.ret = (call'.msg.PGN = PGN126984)
           /\ _AcknowledgeStatus' =
                IF mine /\ Command = N2kts_AlertResponseAcknowledge
                THEN N2kts_AlertYes ELSE _AcknowledgeStatus
           /\ _TemporarySilenceStatus' =
                IF mine /\ Command = N2kts_AlertResponseTemporarySilence
                THEN N2kts_AlertYes ELSE _TemporarySilenceStatus
           /\ _TemporarySilenceTimer' =
                IF mine /\ Command = N2kts_AlertResponseTemporarySilence
                THEN now + _TemporarySilenceDelay ELSE _TemporarySilenceTimer
           /\ UNCHANGED <<identity, system, threshold, _OccurenceThreshold,
                          _TemporarySilenceDelay, _AlertState, _ThresholdStatus,
                          _Occurence, _EscalationStatus>>]_vars

(* C40: TestAlertThreshold and ParseAlertResponse never modify the         *)
(* configuration of the alert: alert id, type, category, priority, the     *)
(* support flags, system, subsystem, threshold method and level,           *)
(* occurrence threshold and silence delay are after the call what they     *)
(* were before it; and the escalation status is No after every step.       *)
C40_ConfigurationKept ==
  [][/\ call'.op \in {"TestAlertThreshold", "ParseAlertResponse"} =>
          UNCHANGED <<identity, system, threshold, _OccurenceThreshold,
                      _TemporarySilenceDelay, _EscalationStatus>>
     /\ _EscalationStatus' = N2kts_AlertNo]_vars

\* a response for another system has been parsed after a sample fired the alert
C40_Witness ==
  /\ call.op = "ParseAlertResponse"
  /\ call.ret = TRUE
  /\ call.msg.PGN = PGN126984
  /\ call.msg.Data[2] # _AlertSystem
  /\ _AlertState = N2kts_AlertStateActive
  /\ _EscalationStatus = N2kts_AlertNo

=============================================================================
